---- MODULE Spec2Model ----
(***************************************************************************)
(* DeepCitation: the deferred-citation extraction                          *)
(* (src/src/parsing/deferredCitationParser.ts), the inline citation tags,  *)
(* the status classifier, the upload checks of src/src/utils/fileSafety.ts,*)
(* the haptic feedback of src/react/haptics.ts, and of the React layer the *)
(* wheel zoom (useWheelZoom), the viewport guard                           *)
(* (useViewportBoundaryGuard), the status indicator and the keyhole        *)
(* offset.                                                                 *)
(*                                                                         *)
(* A text is a sequence of one-character strings, so that indexOf, trim,   *)
(* the regular expressions of repairJson and JSON.parse are computed on    *)
(* characters, as the code computes them.  JavaScript values are tagged    *)
(* records; a thrown exception is an outcome of its own.                   *)
(***************************************************************************)
EXTENDS Integers, Sequences, FiniteSets, TLC

VARIABLES
    plan,          \* what the generator writes: visible text, data block, ending
    llmResponse,   \* the complete generator output (a JavaScript value)
    fullResponse,  \* the text buffered so far, the argument of the next call
    displayText,   \* the text last handed to the display (setDisplayText)
    pc,            \* position of the caller
    result,        \* outcome of the last library call
    history,       \* the calls made so far: argument and outcome of each
    now,           \* Date.now(), in milliseconds
    lastHapticAt,  \* the module variable of src/react/haptics.ts
    vibrations,    \* the times at which navigator.vibrate was called
    timers,        \* the browser's pending setTimeout callbacks
    nextTimerId,   \* the id the next setTimeout returns
    zoomRef,          \* useWheelZoom: zoomRef.current, the committed zoom
    gestureZoomRef,   \* gestureZoomRef.current: <<>> is null, <<z>> a zoom
    commitTimeoutId,  \* commitTimeoutId of the effect: <<>> is null
    attached,         \* the wheel listener of the effect is attached
    transform,        \* wrapper.style.transform: <<>> is the empty string
    commits,          \* the calls of onZoomCommit, in order
    gestures,         \* the gestures started: the accumulated zoom of each
    lastWheelAt,      \* the time of the latest accepted wheel event
    prevViewStateRef, \* useViewportBoundaryGuard: <<>> is null
    rafIdRef,         \* rafIdRef.current
    frames,           \* the browser's pending requestAnimationFrame callbacks
    timerId,          \* timerId of the observer effect: <<>> is undefined
    observing,        \* the observer effect is set up and not yet cleaned up
    translate,        \* el.style.translate: <<>> is the empty string
    lastRoAt          \* the time of the latest ResizeObserver callback

hapticVars == <<now, lastHapticAt, vibrations>>

timerVars == <<timers, nextTimerId>>

zoomVars == <<zoomRef, gestureZoomRef, commitTimeoutId, attached, transform,
              commits, gestures, lastWheelAt>>

guardVars == <<prevViewStateRef, rafIdRef, frames, timerId, observing,
               translate, lastRoAt>>

uiVars == <<timerVars, zoomVars, guardVars>>

vars == <<plan, llmResponse, fullResponse, displayText, pc, result, history,
          now, lastHapticAt, vibrations, timers, nextTimerId, zoomRef,
          gestureZoomRef, commitTimeoutId, attached, transform, commits,
          gestures, lastWheelAt, prevViewStateRef, rafIdRef, frames, timerId,
          observing, translate, lastRoAt>>

----------------------------------------------------------------------------
(* Text primitives of the JavaScript runtime                               *)

\* String.prototype.trim and the regular expression class \s, on the
\* characters the inputs are written in.
JsWhitespace == {" ", "\t", "\n", "\r"}

\* first position >= i (1-based) that holds no whitespace, Len(s)+1 if none
SkipWs(s, i) ==
    CHOOSE j \in i..(Len(s) + 1) :
        /\ j > Len(s) \/ s[j] \notin JsWhitespace
        /\ \A k \in i..(j - 1) : s[k] \in JsWhitespace

\* last position <= j that holds no whitespace, 0 if none
SkipWsBack(s, j) ==
    CHOOSE i \in 0..j :
        /\ i = 0 \/ s[i] \notin JsWhitespace
        /\ \A k \in (i + 1)..j : s[k] \in JsWhitespace

trim(s) == SubSeq(s, SkipWs(s, 1), SkipWsBack(s, Len(s)))

\* pat occurs in s at 0-based offset i
occursAt(s, pat, i) ==
    /\ i >= 0
    /\ i + Len(pat) <= Len(s)
    /\ \A k \in 1..Len(pat) : s[i + k] = pat[k]

\* String.prototype.indexOf(pat, from): 0-based offset of the first
\* occurrence at or after from, -1 when there is none
indexOf(s, pat, from) ==
    LET hits == {i \in from..(Len(s) - Len(pat)) : occursAt(s, pat, i)}
    IN  IF hits = {} THEN -1
        ELSE CHOOSE i \in hits : \A j \in hits : i <= j

\* String.prototype.substring(a, b) for 0 <= a <= b <= length
substring(s, a, b) ==
    IF a <= b THEN SubSeq(s, a + 1, b) ELSE SubSeq(s, b + 1, a)

startsWith(s, pat) == occursAt(s, pat, 0)

endsWith(s, pat) == occursAt(s, pat, Len(s) - Len(pat))

includes(s, pat) == indexOf(s, pat, 0) # -1

\* (s.match(/c/g) || []).length for a one-character pattern c
countChar(s, c) == Cardinality({i \in 1..Len(s) : s[i] = c})

\* c.repeat(n)
repeat(c, n) == [k \in 1..n |-> c]

----------------------------------------------------------------------------
(* JavaScript values                                                       *)

Undefined == [t |-> "undefined"]
Null      == [t |-> "null"]
Bool(b)   == [t |-> "boolean", v |-> b]
Num(n)    == [t |-> "number", v |-> n]
Str(s)    == [t |-> "string", v |-> s]   \* s: sequence of characters
Arr(a)    == [t |-> "array", v |-> a]    \* a: sequence of values
Obj(f)    == [t |-> "object", v |-> f]   \* f: own properties, name -> value

\* ToBoolean
Truthy(x) ==
    CASE x.t \in {"undefined", "null"} -> FALSE
      [] x.t = "boolean" -> x.v
      [] x.t = "number"  -> x.v # 0
      [] x.t = "string"  -> x.v # <<>>
      [] OTHER -> TRUE

\* a ?? b
Coalesce(a, b) == IF a.t \in {"undefined", "null"} THEN b ELSE a

\* x.name for x neither null nor undefined and a name that no prototype
\* defines: the own property of an object, undefined on anything else
Get(x, name) ==
    IF x.t = "object" /\ name \in DOMAIN x.v THEN x.v[name] ELSE Undefined

RECURSIVE Join(_)
\* the property name spelled by a sequence of characters
Join(s) == IF s = <<>> THEN "" ELSE Head(s) \o Join(Tail(s))

----------------------------------------------------------------------------
(* JSON.parse, on the JSON the inputs are written in: objects, arrays,     *)
(* strings with the escapes \" \\ \/ \n \t \r, unsigned integers, true,    *)
(* false, null, and whitespace between tokens.  A parse step returns       *)
(* [ok, val, pos]: pos is the position after the value.                    *)

Digits == {"0", "1", "2", "3", "4", "5", "6", "7", "8", "9"}

DigitValue(c) ==
    CASE c = "0" -> 0 [] c = "1" -> 1 [] c = "2" -> 2 [] c = "3" -> 3
      [] c = "4" -> 4 [] c = "5" -> 5 [] c = "6" -> 6 [] c = "7" -> 7
      [] c = "8" -> 8 [] c = "9" -> 9

JsonFail == [ok |-> FALSE]

JsonEscapes == {"\"", "\\", "/", "n", "t", "r"}

JsonUnescape(c) ==
    CASE c = "n" -> "\n" [] c = "t" -> "\t" [] c = "r" -> "\r" [] OTHER -> c

RECURSIVE JsonStringBody(_, _, _)
\* the characters of a string literal, i being the position after the
\* opening quote; a raw control character inside a literal is a SyntaxError
JsonStringBody(s, i, acc) ==
    IF i > Len(s) THEN JsonFail
    ELSE IF s[i] = "\"" THEN [ok |-> TRUE, val |-> acc, pos |-> i + 1]
    ELSE IF s[i] = "\\" THEN
        IF i + 1 <= Len(s) /\ s[i + 1] \in JsonEscapes
        THEN JsonStringBody(s, i + 2, Append(acc, JsonUnescape(s[i + 1])))
        ELSE JsonFail
    ELSE IF s[i] \in {"\n", "\t", "\r"} THEN JsonFail
    ELSE JsonStringBody(s, i + 1, Append(acc, s[i]))

RECURSIVE JsonDigits(_, _, _)
JsonDigits(s, i, acc) ==
    IF i <= Len(s) /\ s[i] \in Digits
    THEN JsonDigits(s, i + 1, acc * 10 + DigitValue(s[i]))
    ELSE [ok |-> TRUE, val |-> Num(acc), pos |-> i]

\* an unsigned integer: "0", or a digit 1-9 followed by digits
JsonNumber(s, i) ==
    IF s[i] = "0" THEN [ok |-> TRUE, val |-> Num(0), pos |-> i + 1]
    ELSE JsonDigits(s, i, 0)

JsonLiteral(s, i, word, val) ==
    IF occursAt(s, word, i - 1)
    THEN [ok |-> TRUE, val |-> val, pos |-> i + Len(word)]
    ELSE JsonFail

RECURSIVE JsonValue(_, _), JsonElements(_, _, _), JsonMembers(_, _, _)

\* the value that starts at position i (whitespace already skipped)
JsonValue(s, i) ==
    IF i > Len(s) THEN JsonFail
    ELSE IF s[i] = "\"" THEN
        LET r == JsonStringBody(s, i + 1, <<>>)
        IN  IF r.ok THEN [r EXCEPT !.val = Str(r.val)] ELSE JsonFail
    ELSE IF s[i] \in Digits THEN JsonNumber(s, i)
    ELSE IF s[i] = "t" THEN JsonLiteral(s, i, <<"t", "r", "u", "e">>, Bool(TRUE))
    ELSE IF s[i] = "f"
         THEN JsonLiteral(s, i, <<"f", "a", "l", "s", "e">>, Bool(FALSE))
    ELSE IF s[i] = "n" THEN JsonLiteral(s, i, <<"n", "u", "l", "l">>, Null)
    ELSE IF s[i] = "[" THEN
        LET j == SkipWs(s, i + 1)
        IN  IF j <= Len(s) /\ s[j] = "]"
            THEN [ok |-> TRUE, val |-> Arr(<<>>), pos |-> j + 1]
            ELSE JsonElements(s, j, <<>>)
    ELSE IF s[i] = "{" THEN
        LET j == SkipWs(s, i + 1)
        IN  IF j <= Len(s) /\ s[j] = "}"
            THEN [ok |-> TRUE, val |-> Obj(<<>>), pos |-> j + 1]
            ELSE JsonMembers(s, j, <<>>)
    ELSE JsonFail

\* the elements of an array from position i on: value ("," value)* "]"
JsonElements(s, i, acc) ==
    LET r == JsonValue(s, i)
    IN  IF ~r.ok THEN JsonFail
        ELSE LET j == SkipWs(s, r.pos)
                 a == Append(acc, r.val)
             IN  IF j > Len(s) THEN JsonFail
                 ELSE IF s[j] = "]"
                      THEN [ok |-> TRUE, val |-> Arr(a), pos |-> j + 1]
                 ELSE IF s[j] = ","
                      THEN JsonElements(s, SkipWs(s, j + 1), a)
                 ELSE JsonFail

\* the members of an object from position i on:
\* string ":" value ("," string ":" value)* "}"; a repeated name keeps
\* its last value
JsonMembers(s, i, acc) ==
    IF i > Len(s) \/ s[i] # "\"" THEN JsonFail
    ELSE
    LET k == JsonStringBody(s, i + 1, <<>>)
    IN  IF ~k.ok THEN JsonFail
        ELSE
        LET c == SkipWs(s, k.pos)
        IN  IF c > Len(s) \/ s[c] # ":" THEN JsonFail
            ELSE
            LET r == JsonValue(s, SkipWs(s, c + 1))
            IN  IF ~r.ok THEN JsonFail
                ELSE
                LET j == SkipWs(s, r.pos)
                    o == (Join(k.val) :> r.val) @@ acc
                IN  IF j > Len(s) THEN JsonFail
                    ELSE IF s[j] = "}"
                         THEN [ok |-> TRUE, val |-> Obj(o), pos |-> j + 1]
                    ELSE IF s[j] = ","
                         THEN JsonMembers(s, SkipWs(s, j + 1), o)
                    ELSE JsonFail

\* JSON.parse(s): [ok |-> TRUE, val |-> value], or [ok |-> FALSE] for the
\* SyntaxError it throws
JSONparse(s) ==
    LET r == JsonValue(s, SkipWs(s, 1))
    IN  IF r.ok /\ SkipWs(s, r.pos) > Len(s)
        THEN [ok |-> TRUE, val |-> r.val]
        ELSE JsonFail

----------------------------------------------------------------------------
(* repairJson                                                              *)

UpperCase ==
    <<"A", "B", "C", "D", "E", "F", "G", "H", "I", "J", "K", "L", "M",
      "N", "O", "P", "Q", "R", "S", "T", "U", "V", "W", "X", "Y", "Z">>

LowerCase ==
    <<"a", "b", "c", "d", "e", "f", "g", "h", "i", "j", "k", "l", "m",
      "n", "o", "p", "q", "r", "s", "t", "u", "v", "w", "x", "y", "z">>

toLowerCase(c) ==
    IF \E k \in 1..26 : UpperCase[k] = c
    THEN LowerCase[CHOOSE k \in 1..26 : UpperCase[k] = c]
    ELSE c

\* pat (written in lower case) occurs in s at 0-based offset i, letter case
\* ignored: a literal of a regular expression with the i flag
occursAtIgnoreCase(s, pat, i) ==
    /\ i >= 0
    /\ i + Len(pat) <= Len(s)
    /\ \A k \in 1..Len(pat) : toLowerCase(s[i + k]) = pat[k]

\* The backquote character (U+0060), which a TLA+ string literal cannot hold.
Backquote == "BACKQUOTE"

Fence == <<Backquote, Backquote, Backquote>>

\* removes a leading code fence: three backticks, an optional "json" in
\* either letter case, and the whitespace after it
stripFenceStart(s) ==
    IF ~startsWith(s, Fence) THEN s
    ELSE LET j == IF occursAtIgnoreCase(s, <<"j", "s", "o", "n">>, 3)
                  THEN 7 ELSE 3
         IN  SubSeq(s, SkipWs(s, j + 1), Len(s))

\* removes a code fence that ends the text, and the whitespace before it
stripFenceEnd(s) ==
    IF ~endsWith(s, Fence) THEN s
    ELSE SubSeq(s, 1, SkipWsBack(s, Len(s) - 3))

\* the comma at position i is followed by optional whitespace and then
\* a closing bracket or brace
commaBeforeCloser(s, i) ==
    /\ s[i] = ","
    /\ LET j == SkipWs(s, i + 1)
       IN  j <= Len(s) /\ s[j] \in {"]", "}"}

\* removes every comma that stands before a closing bracket or brace
\* (the global replace of repairJson)
stripTrailingCommas(s) ==
    LET kept == SelectSeq([i \in 1..Len(s) |-> i],
                          LAMBDA i : ~commaBeforeCloser(s, i))
    IN  [k \in 1..Len(kept) |-> s[kept[k]]]

\* the missing "]" are appended only to a text that starts with "[" and
\* does not end with "]"
closeBrackets(s) ==
    IF s # <<>> /\ Head(s) = "[" /\ s[Len(s)] # "]"
       /\ countChar(s, "[") > countChar(s, "]")
    THEN s \o repeat("]", countChar(s, "[") - countChar(s, "]"))
    ELSE s

closeBraces(s) ==
    IF countChar(s, "{") > countChar(s, "}")
    THEN s \o repeat("}", countChar(s, "{") - countChar(s, "}"))
    ELSE s

repairJson(jsonString) ==
    closeBraces(closeBrackets(stripTrailingCommas(
        stripFenceEnd(stripFenceStart(trim(jsonString))))))

----------------------------------------------------------------------------
(* normalizeCitationData                                                   *)

\* A call either returns a value or throws.
Returned(v) == [threw |-> FALSE, value |-> v]
Threw(e)    == [threw |-> TRUE, error |-> e]

\* raw.timestamps ? { start_time: ..., end_time: ... } : undefined
normalizeTimestamps(ts) ==
    IF Truthy(ts)
    THEN Obj([start_time |-> Coalesce(Get(ts, "start_time"), Get(ts, "startTime")),
              end_time   |-> Coalesce(Get(ts, "end_time"), Get(ts, "endTime"))])
    ELSE Undefined

\* A variant that reads the snake-style names only: the defect that C13
\* excludes.
normalizeSnakeNamesOnly(raw) ==
    IF raw.t \in {"null", "undefined"} THEN Threw("TypeError")
    ELSE Returned(
        [id            |-> Get(raw, "id"),
         attachment_id |-> Get(raw, "attachment_id"),
         reasoning     |-> Get(raw, "reasoning"),
         full_phrase   |-> Get(raw, "full_phrase"),
         key_span      |-> Get(raw, "key_span"),
         page_key      |-> Coalesce(Get(raw, "page_key"),
                                    Get(raw, "start_page_key")),
         line_ids      |-> Get(raw, "line_ids"),
         timestamps    |-> normalizeTimestamps(Get(raw, "timestamps"))])

\* Reading a property of null throws a TypeError; every other JSON value
\* (number, string, boolean, array, object) can be read.
normalizeCitationData(raw) ==
    IF raw.t \in {"null", "undefined"} THEN Threw("TypeError")
    ELSE Returned(
        [id            |-> Get(raw, "id"),
         attachment_id |-> Coalesce(Get(raw, "attachment_id"), Get(raw, "attachmentId")),
         reasoning     |-> Get(raw, "reasoning"),
         full_phrase   |-> Coalesce(Get(raw, "full_phrase"), Get(raw, "fullPhrase")),
         key_span      |-> Coalesce(Get(raw, "key_span"), Get(raw, "keySpan")),
         page_key      |-> Coalesce(Coalesce(Coalesce(Get(raw, "page_key"),
                                                       Get(raw, "pageKey")),
                                             Get(raw, "start_page_key")),
                                    Get(raw, "startPageKey")),
         line_ids      |-> Coalesce(Get(raw, "line_ids"), Get(raw, "lineIds")),
         timestamps    |-> normalizeTimestamps(Get(raw, "timestamps"))])

RECURSIVE normalizeAll(_, _), normalizeRest(_, _, _)
\* citations.map(normalizeCitationData): the first element that throws
\* ends the call
normalizeAll(raws, acc) ==
    IF raws = <<>> THEN Returned(acc)
    ELSE normalizeRest(normalizeCitationData(Head(raws)), Tail(raws), acc)

\* n is the outcome of the callback on the element before rest
normalizeRest(n, rest, acc) ==
    IF n.threw THEN n ELSE normalizeAll(rest, Append(acc, n.value))

RECURSIVE mapById(_, _)
\* citationMap.set(citation.id, citation) for the numeric ids, in order
mapById(cs, acc) ==
    IF cs = <<>> THEN acc
    ELSE mapById(Tail(cs),
                 IF Head(cs).id.t = "number"
                 THEN (Head(cs).id.v :> Head(cs)) @@ acc
                 ELSE acc)

----------------------------------------------------------------------------
(* parseDeferredCitationResponse                                           *)

CITATION_DATA_START_DELIMITER ==
    <<"<", "<", "<", "C", "I", "T", "A", "T", "I", "O", "N", "_", "D", "A",
      "T", "A", ">", ">", ">">>

CITATION_DATA_END_DELIMITER ==
    <<"<", "<", "<", "E", "N", "D", "_", "C", "I", "T", "A", "T", "I", "O",
      "N", "_", "D", "A", "T", "A", ">", ">", ">">>

\* citations = Array.isArray(parsed) ? parsed : [parsed]
asArray(parsed) == IF parsed.t = "array" THEN parsed.v ELSE <<parsed>>

\* the inner catch: the outcome of JSON.parse(repairJson(jsonString))
secondAttempt(second) ==
    IF second.ok THEN [ok |-> TRUE, repaired |-> TRUE, val |-> second.val]
    ELSE [ok |-> FALSE]

\* the outer try: strict is the outcome of JSON.parse(jsonString); on a
\* SyntaxError the repaired text is parsed
firstAttempt(strict, jsonString) ==
    IF strict.ok THEN [ok |-> TRUE, repaired |-> FALSE, val |-> strict.val]
    ELSE secondAttempt(JSONparse(repairJson(jsonString)))

\* The two parse attempts on a non-empty jsonString.
parseAttempts(jsonString) == firstAttempt(JSONparse(jsonString), jsonString)

\* endIndex !== -1 ? endIndex : llmResponse.length
endOrLength(endIndex, text) == IF endIndex # -1 THEN endIndex ELSE Len(text)

\* A variant of jsonEndIndex that takes the first end delimiter of the
\* whole response, before the start delimiter or after it: the defect
\* that C10 excludes.
jsonEndIndexAnywhere(text, startIndex) ==
    endOrLength(indexOf(text, CITATION_DATA_END_DELIMITER, 0), text)

\* jsonEndIndex: the first end delimiter at or after startIndex, else the
\* end of the response
jsonEndIndexOf(text, startIndex) ==
    endOrLength(indexOf(text, CITATION_DATA_END_DELIMITER, startIndex), text)

\* the text of the data block of a response that holds the start delimiter
jsonStringOf(text, startIndex) ==
    trim(substring(text,
                   startIndex + Len(CITATION_DATA_START_DELIMITER),
                   jsonEndIndexOf(text, startIndex)))

\* the result once the elements are normalized: a throw of the callback
\* leaves the function, else the citations are indexed by id
hydrated(visibleText, normalized) ==
    IF normalized.threw THEN normalized
    ELSE Returned([visibleText |-> visibleText,
                   citations   |-> normalized.value,
                   citationMap |-> mapById(normalized.value, <<>>),
                   success     |-> TRUE])

\* the result once the block was parsed, or could not be
parsedBlock(visibleText, attempt) ==
    IF ~attempt.ok
    THEN Returned([visibleText |-> visibleText,
                   citations   |-> <<>>,
                   citationMap |-> <<>>,
                   success     |-> FALSE,
                   error       |-> "Failed to parse citation JSON"])
    ELSE hydrated(visibleText, normalizeAll(asArray(attempt.val), <<>>))

\* The part of parseDeferredCitationResponse after the split: parse the
\* block if it is not empty, normalize the elements, index them by id.
parseDataBlock(visibleText, jsonString) ==
    parsedBlock(visibleText,
                IF jsonString # <<>> THEN parseAttempts(jsonString)
                ELSE [ok |-> TRUE, repaired |-> FALSE, val |-> Arr(<<>>)])

\* the part of parseDeferredCitationResponse after the search for the
\* start delimiter
splitAt(text, startIndex) ==
    IF startIndex = -1
    THEN Returned([visibleText |-> trim(text),
                   citations   |-> <<>>,
                   citationMap |-> <<>>,
                   success     |-> TRUE])
    ELSE parseDataBlock(trim(substring(text, 0, startIndex)),
                        jsonStringOf(text, startIndex))

parseDeferredCitationResponse(response) ==
    IF ~Truthy(response) \/ response.t # "string"
    THEN Returned([visibleText |-> <<>>,
                   citations   |-> <<>>,
                   citationMap |-> <<>>,
                   success     |-> FALSE,
                   error       |-> "Invalid input: expected a string"])
    ELSE splitAt(response.v,
                 indexOf(response.v, CITATION_DATA_START_DELIMITER, 0))

----------------------------------------------------------------------------
(* deferredCitationToCitation                                              *)

NameChars ==
    {"_"} \cup {UpperCase[k] : k \in 1..26} \cup {LowerCase[k] : k \in 1..26}

RECURSIVE skipNameChars(_, _)
\* position after the longest run of [_a-zA-Z] that starts at position i
skipNameChars(s, i) ==
    IF i <= Len(s) /\ s[i] \in NameChars THEN skipNameChars(s, i + 1) ELSE i

RECURSIVE skipDigits(_, _)
\* position after the longest run of digits that starts at position i
skipDigits(s, i) ==
    IF i <= Len(s) /\ s[i] \in Digits THEN skipDigits(s, i + 1) ELSE i

\* /page[_a-zA-Z]*(\d+)_index_(\d+)/i tried at 0-based offset i.  Each
\* repetition is followed by a character outside its class, so the
\* longest run is the only one that can match.
pageMatchGroups(s, d1, e1, e2) ==
    IF /\ e1 > d1
       /\ occursAtIgnoreCase(s, <<"_", "i", "n", "d", "e", "x", "_">>, e1 - 1)
       /\ e2 > e1 + 7
    THEN [ok |-> TRUE, page |-> SubSeq(s, d1, e1 - 1),
          index |-> SubSeq(s, e1 + 7, e2 - 1)]
    ELSE [ok |-> FALSE]

pageMatchDigits(s, d1, e1) == pageMatchGroups(s, d1, e1, skipDigits(s, e1 + 7))

pageMatchName(s, d1) == pageMatchDigits(s, d1, skipDigits(s, d1))

pageMatchAt(s, i) ==
    IF ~occursAtIgnoreCase(s, <<"p", "a", "g", "e">>, i) THEN [ok |-> FALSE]
    ELSE pageMatchName(s, skipNameChars(s, i + 5))

RECURSIVE pageMatchFrom(_, _), pageMatchNext(_, _, _)
pageMatchFrom(s, i) ==
    IF i + 4 > Len(s) THEN [ok |-> FALSE]
    ELSE pageMatchNext(pageMatchAt(s, i), s, i)

pageMatchNext(m, s, i) == IF m.ok THEN m ELSE pageMatchFrom(s, i + 1)

\* pageKey.match(/page[_a-zA-Z]*(\d+)_index_(\d+)/i): the leftmost match
pageMatch(s) == pageMatchFrom(s, 0)

RECURSIVE parseDecimal(_, _)
\* parseInt(digits, 10)
parseDecimal(s, acc) ==
    IF s = <<>> THEN acc
    ELSE parseDecimal(Tail(s), acc * 10 + DigitValue(Head(s)))

PagePrefix ==
    <<"p", "a", "g", "e", "_", "n", "u", "m", "b", "e", "r", "_">>

IndexInfix == <<"_", "i", "n", "d", "e", "x", "_">>

RECURSIVE insertAscending(_, _)
insertAscending(x, sorted) ==
    IF sorted = <<>> THEN <<x>>
    ELSE IF x.v < Head(sorted).v THEN <<x>> \o sorted
    ELSE <<Head(sorted)>> \o insertAscending(x, Tail(sorted))

RECURSIVE sortAscending(_)
sortAscending(a) ==
    IF a = <<>> THEN <<>>
    ELSE insertAscending(a[Len(a)], sortAscending(SubSeq(a, 1, Len(a) - 1)))

\* [...a].sort((x, y) => x - y): numbers come out ascending, equal numbers
\* stay.  An array of at most one element is returned as it is, whatever
\* it holds; the inputs hold no longer array with an element that is not
\* a number.
sortByDifference(a) ==
    IF \A i \in 1..Len(a) : a[i].t = "number" THEN sortAscending(a) ELSE a

\* data.line_ids?.length
lengthOf(x) ==
    CASE x.t \in {"undefined", "null"} -> Undefined
      [] x.t \in {"string", "array"}   -> Num(Len(x.v))
      [] x.t = "object"                -> Get(x, "length")
      [] OTHER                         -> Undefined

\* [...x]: the characters of a string, the elements of an array; any other
\* value with a truthy length is not iterable and the spread throws
spread(x) ==
    CASE x.t = "string" -> Returned([i \in 1..Len(x.v) |-> Str(<<x.v[i]>>)])
      [] x.t = "array"  -> Returned(x.v)
      [] OTHER          -> Threw("TypeError")

\* pageNumber and startPageKey from the match m of the page key
pageFieldsOf(m) ==
    IF m.ok
    THEN [pageNumber   |-> Num(parseDecimal(m.page, 0)),
          startPageKey |-> Str(PagePrefix \o m.page \o IndexInfix \o m.index)]
    ELSE [pageNumber |-> Undefined, startPageKey |-> Undefined]

\* the pageNumber and startPageKey of a page key that is a string
pageFields(pageKey) == pageFieldsOf(pageMatch(pageKey.v))

\* A variant of the returned object that copies every key of data into
\* it beside the recognised fields: the defect that C7 excludes.
citationCopyingData(data, citationNumber, page, items) ==
    IF items.threw THEN items
    ELSE Returned(
        [attachmentId   |-> data.attachment_id,
         pageNumber     |-> page.pageNumber,
         startPageKey   |-> page.startPageKey,
         fullPhrase     |-> data.full_phrase,
         keySpan        |-> data.key_span,
         citationNumber |-> Coalesce(citationNumber, data.id),
         lineIds        |-> IF Truthy(lengthOf(data.line_ids))
                            THEN Arr(sortByDifference(items.value))
                            ELSE Undefined,
         reasoning      |-> data.reasoning,
         timestamps     |-> data.timestamps] @@ data)

\* the returned object, from the page fields and the spread line ids
citationOf(data, citationNumber, page, items) ==
    IF items.threw THEN items
    ELSE Returned(
        [attachmentId   |-> data.attachment_id,
         pageNumber     |-> page.pageNumber,
         startPageKey   |-> page.startPageKey,
         fullPhrase     |-> data.full_phrase,
         keySpan        |-> data.key_span,
         citationNumber |-> Coalesce(citationNumber, data.id),
         lineIds        |-> IF Truthy(lengthOf(data.line_ids))
                            THEN Arr(sortByDifference(items.value))
                            ELSE Undefined,
         reasoning      |-> data.reasoning,
         timestamps     |-> IF Truthy(data.timestamps)
                            THEN Obj([startTime |-> Get(data.timestamps,
                                                        "start_time"),
                                      endTime   |-> Get(data.timestamps,
                                                        "end_time")])
                            ELSE Undefined])

deferredCitationToCitation(data, citationNumber) ==
    IF Truthy(data.page_key) /\ data.page_key.t # "string"
    THEN Threw("TypeError")      \* pageKey.match is not a function
    ELSE citationOf(data, citationNumber,
                    IF Truthy(data.page_key) THEN pageFields(data.page_key)
                    ELSE [pageNumber |-> Undefined, startPageKey |-> Undefined],
                    IF Truthy(lengthOf(data.line_ids)) THEN spread(data.line_ids)
                    ELSE Returned(<<>>))

----------------------------------------------------------------------------
(* getAllCitationsFromDeferredResponse                                     *)

\* generateCitationKey (src/react/utils.ts): a deterministic digest of the
\* identity-bearing fields.  The digest is modelled by the tuple of these
\* fields, which is equal exactly when they are.
generateCitationKey(citation) ==
    <<citation.attachmentId, citation.fullPhrase, citation.keySpan,
      citation.pageNumber, citation.startPageKey, citation.lineIds,
      citation.timestamps>>

RECURSIVE collectCitations(_, _), collectRest(_, _, _)
\* the loop over parsed.citations: a later citation with the key of an
\* earlier one replaces it; the first conversion that throws ends the call
collectCitations(datas, acc) ==
    IF datas = <<>> THEN Returned(acc)
    ELSE collectRest(deferredCitationToCitation(Head(datas), Undefined),
                     Tail(datas), acc)

\* c is the outcome of the conversion of the element before rest
collectRest(c, rest, acc) ==
    IF c.threw THEN c
    ELSE collectCitations(rest,
                          IF Truthy(c.value.fullPhrase)
                          THEN (generateCitationKey(c.value) :> c.value) @@ acc
                          ELSE acc)

\* A variant that keeps the citations in a map that outlives the call: it
\* starts from the map the previous call returned.  The state across calls
\* that C12 excludes.
citationsOfSharedMap(parsed) ==
    IF parsed.threw THEN parsed
    ELSE collectCitations(IF parsed.value.success
                          THEN parsed.value.citations ELSE <<>>,
                          IF "threw" \in DOMAIN result /\ ~result.threw
                          THEN result.value ELSE <<>>)

\* the part of getAllCitationsFromDeferredResponse after the parse
citationsOf(parsed) ==
    IF parsed.threw THEN parsed
    ELSE IF ~parsed.value.success \/ parsed.value.citations = <<>>
    THEN Returned(<<>>)
    ELSE collectCitations(parsed.value.citations, <<>>)

getAllCitationsFromDeferredResponse(response) ==
    citationsOf(parseDeferredCitationResponse(response))

\* A variant of hasDeferredCitations that asks for a closed block, so that
\* a response cut before its end marker is scanned for inline tags: the
\* defect that C11 excludes.
hasClosedDeferredBlock(response) ==
    /\ response.t = "string"
    /\ includes(response.v, CITATION_DATA_START_DELIMITER)
    /\ includes(response.v, CITATION_DATA_END_DELIMITER)

hasDeferredCitations(response) ==
    response.t = "string" /\ includes(response.v, CITATION_DATA_START_DELIMITER)

\* return parsed.visibleText
visibleTextOf(parsed) ==
    IF parsed.threw THEN parsed ELSE Returned(parsed.value.visibleText)

extractVisibleText(response) ==
    visibleTextOf(parseDeferredCitationResponse(response))

----------------------------------------------------------------------------
(* Inline citation tags (src/parsing/parseCitation.ts and                   *)
(* normalizeCitation.ts): the tag scanner, the attribute decoder and the    *)
(* normalizer, after sections 4.1 to 4.6 of the specification and the       *)
(* cases of the parser's test suite.                                        *)

CiteOpen == <<"<", "c", "i", "t", "e">>

CiteClose == <<"<", "/", "c", "i", "t", "e", ">">>

\* the least element of a non-empty set of integers, 0 for the empty set
leastOr0(S) == IF S = {} THEN 0 ELSE CHOOSE i \in S : \A j \in S : i <= j

\* position of the quote q that closes a value starting at position i: the
\* first q not preceded by a backslash; 0 when there is none
closingQuote(s, i, q) ==
    leastOr0({j \in i..Len(s) : s[j] = q /\ (j = i \/ s[j - 1] # "\\")})

\* position of the "=" that ends the attribute name starting at position
\* i: letters, underscores and escaping backslashes before it; 0 when the
\* text at i is no attribute name
nameEnd(s, i) ==
    leastOr0({j \in (i + 1)..Len(s) :
                 /\ s[j] = "="
                 /\ \A k \in i..(j - 1) : s[k] \in NameChars \cup {"\\"}})

\* an attribute name without the backslashes that markdown escaping adds
unescapeName(n) == SelectSeq(n, LAMBDA c : c # "\\")

Entities ==
    << <<"&", "l", "t", ";">>, <<"&", "g", "t", ";">>,
       <<"&", "a", "m", "p", ";">>, <<"&", "q", "u", "o", "t", ";">> >>

EntityChars == <<"<", ">", "&", "\"">>

\* the entity that starts at position i of v, 0 when there is none
entityAt(v, i) ==
    leastOr0({e \in 1..Len(Entities) : occursAt(v, Entities[e], i - 1)})

RECURSIVE decodeFrom(_, _, _), decodeEntity(_, _, _, _)
\* 4.1: a backslash before a quote is dropped, the named entities are
\* decoded, every other character is kept
decodeFrom(v, i, acc) ==
    IF i > Len(v) THEN acc
    ELSE IF v[i] = "\\" /\ i < Len(v) /\ v[i + 1] \in {"'", "\""}
    THEN decodeFrom(v, i + 2, Append(acc, v[i + 1]))
    ELSE decodeEntity(v, i, acc, entityAt(v, i))

decodeEntity(v, i, acc, e) ==
    IF e = 0 THEN decodeFrom(v, i + 1, Append(acc, v[i]))
    ELSE decodeFrom(v, i + Len(Entities[e]), Append(acc, EntityChars[e]))

decodeAttribute(v) == decodeFrom(v, 1, <<>>)

ScanFail == [ok |-> FALSE]

\* A variant of closeTag that knows the self-closing shape only: the
\* defect that C14 excludes.
closeSelfClosingOnly(s, i, acc) ==
    IF occursAt(s, <<"/", ">">>, i - 1)
    THEN [ok |-> TRUE, attrs |-> acc, pos |-> i + 2]
    ELSE ScanFail

\* the end of a tag at position i, after its attributes: "/>", or ">" and
\* the next "</cite>"
closeTag(s, i, acc) ==
    IF occursAt(s, <<"/", ">">>, i - 1)
    THEN [ok |-> TRUE, attrs |-> acc, pos |-> i + 2]
    ELSE IF indexOf(s, CiteClose, i) = -1 THEN ScanFail
    ELSE [ok |-> TRUE, attrs |-> acc,
          pos |-> indexOf(s, CiteClose, i) + Len(CiteClose) + 1]

RECURSIVE parseAttrs(_, _, _), attrName(_, _, _, _), attrValue(_, _, _, _, _)
\* The attributes of a tag from position i on, up to the end of the
\* fragment: "/>" for a self-closing tag, ">" content "</cite>" for a
\* paired one, whose content is discarded.  pos is the position after the
\* fragment.
parseAttrs(s, i, acc) ==
    IF i > Len(s) THEN ScanFail
    ELSE IF occursAt(s, <<"/", ">">>, i - 1) \/ s[i] = ">"
    THEN closeTag(s, i, acc)
    ELSE attrName(s, i, acc, nameEnd(s, i))

\* e is the position of the "=" after the name that starts at i
attrName(s, i, acc, e) ==
    IF e = 0 \/ e + 1 > Len(s) \/ s[e + 1] \notin {"'", "\""} THEN ScanFail
    ELSE attrValue(s, i, acc, e, closingQuote(s, e + 2, s[e + 1]))

\* c is the position of the quote that closes the value opened at e + 1;
\* the first occurrence of a name is kept
attrValue(s, i, acc, e, c) ==
    IF c = 0 THEN ScanFail
    ELSE parseAttrs(s, SkipWs(s, c + 1),
                    acc @@ (Join(unescapeName(SubSeq(s, i, e - 1)))
                                :> Str(decodeAttribute(SubSeq(s, e + 2, c - 1)))))

RECURSIVE scanFrom(_, _, _), scanTag(_, _, _, _)
\* 4.4: every well-formed fragment at or after 0-based offset from, in
\* the order of the text; a fragment that cannot be parsed is skipped
scanFrom(s, from, acc) ==
    IF indexOf(s, CiteOpen, from) = -1 THEN acc
    ELSE scanTag(s, indexOf(s, CiteOpen, from), acc,
                 parseAttrs(s, SkipWs(s, indexOf(s, CiteOpen, from) + 6), <<>>))

\* r is the outcome of parsing the tag that opens at 0-based offset c
scanTag(s, c, acc, r) ==
    IF c + 6 > Len(s) \/ s[c + 6] \notin JsWhitespace \/ ~r.ok
    THEN scanFrom(s, c + Len(CiteOpen), acc)
    ELSE scanFrom(s, r.pos - 1, Append(acc, Obj(r.attrs)))

scanCiteTags(s) == scanFrom(s, 0, <<>>)

\* the positions of the commas of s, with the position after its end
commasOf(s) == {i \in 1..(Len(s) + 1) : i = Len(s) + 1 \/ s[i] = ","}

\* the k-th of these positions, 0 for k = 0
commaAt(s, k) ==
    IF k = 0 THEN 0
    ELSE CHOOSE i \in commasOf(s) :
             Cardinality({j \in commasOf(s) : j < i}) = k - 1

\* lineIdsStr.split(","): the items of a comma-separated text, in order
splitOnCommas(s) ==
    [k \in 1..Cardinality(commasOf(s)) |->
        SubSeq(s, commaAt(s, k - 1) + 1, commaAt(s, k) - 1)]

\* the numbers start, start + 1, ..., end of the callback of
\* lineIdsStr.replace(/(\d+)-(\d+)/g, ...): every number of the range is
\* pushed, whatever its size; a descending range leaves its start only
expandRange(startNum, endNum) ==
    IF startNum <= endNum
    THEN [k \in 1..(endNum - startNum + 1) |-> startNum + k - 1]
    ELSE <<startNum>>

\* the numbers one item stands for after the replacement: a range is
\* expanded, a number is itself, anything else (NaN) is dropped; d is the
\* number of leading digits, e the position after the digits that follow
\* the dash
itemNumbersAt(item, d, e) ==
    IF d = 0 THEN <<>>
    ELSE IF d < Len(item) /\ item[d + 1] = "-" /\ e > d + 2
    THEN expandRange(parseDecimal(SubSeq(item, 1, d), 0),
                     parseDecimal(SubSeq(item, d + 2, e - 1), 0))
    ELSE <<parseDecimal(SubSeq(item, 1, d), 0)>>

leadingDigits(item) == skipDigits(item, 1) - 1

itemNumbers(item) ==
    itemNumbersAt(trim(item), leadingDigits(trim(item)),
                  skipDigits(trim(item), leadingDigits(trim(item)) + 2))

RECURSIVE numbersOf(_, _)
numbersOf(items, acc) ==
    IF items = <<>> THEN acc
    ELSE numbersOf(Tail(items), acc \o itemNumbers(Head(items)))

\* [...new Set(lineIds)].sort((a, b) => a - b): the distinct numbers of a
\* non-empty list in ascending order, those of lo..hi that occur in it
ascendingWithin(S, lo, hi) ==
    SelectSeq([k \in 1..(hi - lo + 1) |-> lo + k - 1], LAMBDA x : x \in S)

uniqueAscending(S) ==
    ascendingWithin(S, CHOOSE x \in S : \A y \in S : x <= y,
                       CHOOSE x \in S : \A y \in S : y <= x)

\* 4.2: the lineIds of a line_ids attribute, absent when nothing is valid
numbersToArray(ns) == Arr([k \in 1..Len(ns) |-> Num(ns[k])])

lineIdsOfNumbers(ns) ==
    IF ns = <<>> THEN Undefined
    ELSE numbersToArray(uniqueAscending({ns[i] : i \in 1..Len(ns)}))

parseLineIds(lineIdsStr) ==
    lineIdsOfNumbers(numbersOf(splitOnCommas(lineIdsStr), <<>>))

\* the first of the names that the fragment carries, undefined otherwise
firstOf(attrs, names) ==
    IF \E k \in 1..Len(names) : Truthy(Get(attrs, names[k]))
    THEN Get(attrs, names[leastOr0({k \in 1..Len(names) :
                                       Truthy(Get(attrs, names[k]))})])
    ELSE Undefined

\* 4.3 on the page key of a fragment
inlinePageFields(pageKey) ==
    IF pageKey.t = "string" THEN pageFields(pageKey)
    ELSE [pageNumber |-> Undefined, startPageKey |-> Undefined]

\* 4.6 on a fragment of the tag scanner: the aliases of each field, the
\* fields of the allow-list only
inlineCitationFrom(attrs, page, lineIds) ==
    [attachmentId   |-> firstOf(attrs, <<"attachment_id", "attachmentId">>),
     pageNumber     |-> page.pageNumber,
     startPageKey   |-> page.startPageKey,
     fullPhrase     |-> firstOf(attrs, <<"full_phrase", "fullPhrase">>),
     keySpan        |-> firstOf(attrs, <<"key_span", "keySpan">>),
     citationNumber |-> Undefined,
     lineIds        |-> IF lineIds.t = "string" THEN parseLineIds(lineIds.v)
                        ELSE Undefined,
     reasoning      |-> firstOf(attrs, <<"reasoning">>),
     timestamps     |-> Undefined]

inlineCitation(attrs) ==
    inlineCitationFrom(attrs,
        inlinePageFields(firstOf(attrs, <<"start_page_key", "startPageKey",
                                          "page_key", "pageKey">>)),
        firstOf(attrs, <<"line_ids", "lineIds">>))

RECURSIVE collectInline(_, _)
\* the fragments in the order of the text; one without a full phrase is
\* dropped, a later one with the key of an earlier one replaces it
collectInline(fragments, acc) ==
    IF fragments = <<>> THEN acc
    ELSE collectInline(Tail(fragments),
            IF Truthy(inlineCitation(Head(fragments)).fullPhrase)
            THEN (generateCitationKey(inlineCitation(Head(fragments)))
                     :> inlineCitation(Head(fragments))) @@ acc
            ELSE acc)

\* 4.9: the deferred block when its start marker is present, the inline
\* tags of the whole text otherwise
getAllCitationsFromLlmOutput(llmOutput) ==
    IF llmOutput.t # "string" THEN Returned(<<>>)
    ELSE IF hasDeferredCitations(llmOutput)
    THEN getAllCitationsFromDeferredResponse(llmOutput)
    ELSE Returned(collectInline(scanCiteTags(llmOutput.v), <<>>))

----------------------------------------------------------------------------
(* Status classifier: getCitationStatus (src/parsing/parseCitation.ts),    *)
(* after the table "Detailed Status Values" of INTEGRATION.md and the      *)
(* categories of VerificationStats.  A status token is held whole, as the  *)
(* value of a string.                                                      *)

VerifiedStatuses == {"found", "found_phrase_missed_anchor_text"}

PartialStatuses ==
    {"found_anchor_text_only", "partial_text_found", "found_on_other_page",
     "found_on_other_line", "first_word_found"}

PendingStatuses == {"loading", "pending"}

\* A variant that counts the exact matches only as verified: the defect
\* that C16 excludes.
flagsVerifiedExactOnly(status) ==
    [isVerified     |-> status.t = "string" /\ status.v \in VerifiedStatuses,
     isPartialMatch |-> status.t = "string" /\ status.v \in PartialStatuses,
     isMiss         |-> status.t = "string" /\ status.v = "not_found",
     isPending      |-> \/ status.t \in {"null", "undefined"}
                        \/ status.t = "string" /\ status.v \in PendingStatuses]

\* A variant that takes every status it does not know for a pending one:
\* the defect that C17 excludes.
flagsUnknownPending(status) ==
    [isVerified     |-> /\ status.t = "string"
                        /\ status.v \in VerifiedStatuses \cup PartialStatuses,
     isPartialMatch |-> status.t = "string" /\ status.v \in PartialStatuses,
     isMiss         |-> status.t = "string" /\ status.v = "not_found",
     isPending      |-> ~(/\ status.t = "string"
                          /\ status.v \in VerifiedStatuses \cup PartialStatuses
                                              \cup {"not_found"})]

\* the four flags of a raw status
statusFlags(status) ==
    [isVerified     |-> /\ status.t = "string"
                        /\ status.v \in VerifiedStatuses \cup PartialStatuses,
     isPartialMatch |-> status.t = "string" /\ status.v \in PartialStatuses,
     isMiss         |-> status.t = "string" /\ status.v = "not_found",
     isPending      |-> \/ status.t \in {"null", "undefined"}
                        \/ status.t = "string" /\ status.v \in PendingStatuses]

\* verification?.status, classified
getCitationStatus(verification) == statusFlags(Get(verification, "status"))

----------------------------------------------------------------------------
(* Upload validation (src/src/utils/fileSafety.ts).  A buffer is the       *)
(* sequence of its bytes; byte i of the code is element i + 1.  A MIME     *)
(* type and an error message are held whole, as the value of a string.     *)

\* a signature: [offset, bytes]; a signature set: the signatures that must
\* all match; a MIME type has one or more sets, of which any may match
FILE_SIGNATURES ==
    [mime \in {"application/pdf", "image/png", "image/jpeg", "image/tiff",
               "image/webp"} |->
        CASE mime = "application/pdf" ->
                 << << [offset |-> 0, bytes |-> <<37, 80, 68, 70>>] >> >>
          [] mime = "image/png" ->
                 << << [offset |-> 0, bytes |-> <<137, 80, 78, 71>>] >> >>
          [] mime = "image/jpeg" ->
                 << << [offset |-> 0, bytes |-> <<255, 216, 255>>] >> >>
          [] mime = "image/tiff" ->
                 << << [offset |-> 0, bytes |-> <<73, 73, 42, 0>>] >>,
                    << [offset |-> 0, bytes |-> <<77, 77, 0, 42>>] >> >>
          [] mime = "image/webp" ->
                 << << [offset |-> 0, bytes |-> <<82, 73, 70, 70>>],
                       [offset |-> 8, bytes |-> <<87, 69, 66, 80>>] >> >>]

\* Object.keys(FILE_SIGNATURES)
ALLOWED_UPLOAD_MIME_TYPES == DOMAIN FILE_SIGNATURES

MAX_UPLOAD_FILE_SIZE == 50 * 1024 * 1024

\* the names FILE_SIGNATURES[name] finds on Object.prototype
InheritedNames == {"constructor", "toString", "__proto__"}

\* buffer[i]: the byte, or undefined (-1) at or after buffer.length
byteAt(buffer, i) == IF i < Len(buffer) THEN buffer[i + 1] ELSE -1

\* sig.bytes.every((b, i) => buffer[sig.offset + i] === b)
matchesSignature(buffer, sig) ==
    \A i \in 0..(Len(sig.bytes) - 1) :
        byteAt(buffer, sig.offset + i) = sig.bytes[i + 1]

matchesSignatureSet(buffer, sigSet) ==
    \A k \in 1..Len(sigSet) : matchesSignature(buffer, sigSet[k])

\* Math.max(...sigSet.signatures.map(s => s.offset + s.bytes.length))
maxNeeded(sigSet) ==
    CHOOSE m \in {sigSet[k].offset + Len(sigSet[k].bytes) : k \in 1..Len(sigSet)} :
        \A k \in 1..Len(sigSet) : sigSet[k].offset + Len(sigSet[k].bytes) <= m

\* the loop over the signature sets of a known type
anySetMatches(buffer, signatureSets) ==
    \E k \in 1..Len(signatureSets) :
        /\ Len(buffer) >= maxNeeded(signatureSets[k])
        /\ matchesSignatureSet(buffer, signatureSets[k])

\* true, false, or null for a type without signature; a name inherited
\* from Object.prototype is truthy and not iterable: for...of throws
validateFileMagicBytes(buffer, mimeType) ==
    IF mimeType \in InheritedNames THEN Threw("TypeError")
    ELSE IF mimeType \notin DOMAIN FILE_SIGNATURES THEN Returned(Null)
    ELSE Returned(Bool(anySetMatches(buffer, FILE_SIGNATURES[mimeType])))

TooLarge == Str("File too large. Maximum size is 50MB.")

Unsupported ==
    Str("Unsupported file type. Allowed: PDF, PNG, JPEG, TIFF, WebP.")

Mismatch == Str("File content does not match its declared type.")

\* A variant that trusts the declared type: the defect that C18 excludes.
magicVerdictTrustingType(magicValid) == Returned(Null)

\* the end of validateUploadFile: magicValid === false is an error
magicVerdict(magicValid) ==
    IF magicValid.threw THEN magicValid
    ELSE IF magicValid.value = Bool(FALSE) THEN Returned(Mismatch)
    ELSE Returned(Null)

validateUploadFile(fileSize, mimeType, buffer) ==
    IF fileSize > MAX_UPLOAD_FILE_SIZE THEN Returned(TooLarge)
    ELSE IF mimeType \notin ALLOWED_UPLOAD_MIME_TYPES THEN Returned(Unsupported)
    ELSE magicVerdict(validateFileMagicBytes(buffer, mimeType))

(* The upload route of the example application                             *)
(* (examples/nextjs-ai-sdk/src/app/api/upload/route.ts).                   *)

MAX_FILE_SIZE == 50 * 1024 * 1024

ALLOWED_TYPES ==
    {"application/pdf", "image/png", "image/jpeg", "image/tiff", "image/webp"}

\* the leading bytes of each type, any of which may match
MAGIC_BYTES ==
    [mime \in ALLOWED_TYPES |->
        CASE mime = "application/pdf" -> << <<37, 80, 68, 70>> >>
          [] mime = "image/png"       -> << <<137, 80, 78, 71>> >>
          [] mime = "image/jpeg"      -> << <<255, 216, 255>> >>
          [] mime = "image/tiff"      -> << <<73, 73, 42, 0>>, <<77, 77, 0, 42>> >>
          [] mime = "image/webp"      -> << <<82, 73, 70, 70>> >>]

\* signatures.some(sig => sig.every((b, i) => buffer[i] === b))
someSignatureMatches(buffer, signatures) ==
    \E k \in 1..Len(signatures) :
        \A i \in 0..(Len(signatures[k]) - 1) :
            byteAt(buffer, i) = signatures[k][i + 1]

Response(status, error) == [status |-> status, error |-> error]

\* POST: configured tells whether the API key is set, file is the upload
\* or undefined, prepared tells whether dc.prepareFiles succeeds
POST(configured, file, prepared) ==
    IF ~configured
    THEN Response(500, Str("DeepCitation API key not configured"))
    ELSE IF file = Undefined THEN Response(400, Str("No file provided"))
    ELSE IF file.fileSize > MAX_FILE_SIZE THEN Response(413, TooLarge)
    ELSE IF file.mimeType \notin ALLOWED_TYPES THEN Response(400, Unsupported)
    ELSE IF ~someSignatureMatches(file.buffer, MAGIC_BYTES[file.mimeType])
    THEN Response(400, Mismatch)
    ELSE IF ~prepared THEN Response(500, Str("Failed to upload file"))
    ELSE Response(200, Undefined)

----------------------------------------------------------------------------
(* Haptic feedback (src/react/haptics.ts)                                  *)

HAPTIC_MIN_GAP_MS == 300

\* the duration of the vibration of each event, in milliseconds
HAPTIC_MS == [event \in {"expand", "collapse"} |->
                 IF event = "expand" THEN 12 ELSE 10]

\* A variant of the test that holds back a call of the same millisecond
\* only: the defect that C20 excludes.
sameMillisecond(at, last) == at - last < 1

\* now - lastHapticAt < HAPTIC_MIN_GAP_MS
tooSoon(at, last) == at - last < HAPTIC_MIN_GAP_MS

----------------------------------------------------------------------------
(* The generator: what the language model writes                           *)
(*                                                                         *)
(* A written JSON value is a JavaScript value, except that an object is    *)
(* the sequence of its members <<name, value>> in the order written.       *)

Written(members) == [t |-> "written", v |-> members]

DigitChars == <<"0", "1", "2", "3", "4", "5", "6", "7", "8", "9">>

RECURSIVE renderNat(_)
renderNat(n) ==
    IF n < 10 THEN <<DigitChars[n + 1]>>
    ELSE Append(renderNat(n \div 10), DigitChars[(n % 10) + 1])

RECURSIVE escapeJson(_)
\* proper JSON escaping of the characters of a string
escapeJson(s) ==
    IF s = <<>> THEN <<>>
    ELSE (CASE Head(s) = "\"" -> <<"\\", "\"">>
            [] Head(s) = "\\" -> <<"\\", "\\">>
            [] Head(s) = "\n" -> <<"\\", "n">>
            [] OTHER          -> <<Head(s)>>) \o escapeJson(Tail(s))

RECURSIVE Render(_), renderItems(_), renderMembers(_)

\* the compact JSON text of a written value
Render(x) ==
    CASE x.t = "null"    -> <<"n", "u", "l", "l">>
      [] x.t = "boolean" -> IF x.v THEN <<"t", "r", "u", "e">>
                            ELSE <<"f", "a", "l", "s", "e">>
      [] x.t = "number"  -> renderNat(x.v)
      [] x.t = "string"  -> <<"\"">> \o escapeJson(x.v) \o <<"\"">>
      [] x.t = "array"   -> <<"[">> \o renderItems(x.v) \o <<"]">>
      [] x.t = "written" -> <<"{">> \o renderMembers(x.v) \o <<"}">>

renderItems(a) ==
    IF a = <<>> THEN <<>>
    ELSE IF Len(a) = 1 THEN Render(a[1])
    ELSE Render(a[1]) \o <<",">> \o renderItems(Tail(a))

renderMembers(ms) ==
    IF ms = <<>> THEN <<>>
    ELSE LET m == <<"\"">> \o escapeJson(ms[1][1]) \o <<"\"", ":">>
                  \o Render(ms[1][2])
         IN  IF Len(ms) = 1 THEN m ELSE m \o <<",">> \o renderMembers(Tail(ms))

RECURSIVE Meaning(_), meaningOfMembers(_, _)

\* the JavaScript value a written value stands for
Meaning(x) ==
    CASE x.t = "array"   -> Arr([i \in 1..Len(x.v) |-> Meaning(x.v[i])])
      [] x.t = "written" -> Obj(meaningOfMembers(x.v, <<>>))
      [] OTHER           -> x

meaningOfMembers(ms, acc) ==
    IF ms = <<>> THEN acc
    ELSE meaningOfMembers(Tail(ms), (Join(ms[1][1]) :> Meaning(ms[1][2])) @@ acc)

K_id            == <<"i", "d">>
K_attachment_id == <<"a", "t", "t", "a", "c", "h", "m", "e", "n", "t", "_", "i", "d">>
K_attachmentId  == <<"a", "t", "t", "a", "c", "h", "m", "e", "n", "t", "I", "d">>
K_reasoning     == <<"r", "e", "a", "s", "o", "n", "i", "n", "g">>
K_full_phrase   == <<"f", "u", "l", "l", "_", "p", "h", "r", "a", "s", "e">>
K_fullPhrase    == <<"f", "u", "l", "l", "P", "h", "r", "a", "s", "e">>
K_key_span      == <<"k", "e", "y", "_", "s", "p", "a", "n">>
K_keySpan       == <<"k", "e", "y", "S", "p", "a", "n">>
K_page_key      == <<"p", "a", "g", "e", "_", "k", "e", "y">>
K_pageKey       == <<"p", "a", "g", "e", "K", "e", "y">>
K_line_ids      == <<"l", "i", "n", "e", "_", "i", "d", "s">>
K_lineIds       == <<"l", "i", "n", "e", "I", "d", "s">>
K_timestamps    == <<"t", "i", "m", "e", "s", "t", "a", "m", "p", "s">>
K_start_time    == <<"s", "t", "a", "r", "t", "_", "t", "i", "m", "e">>
K_endTime       == <<"e", "n", "d", "T", "i", "m", "e">>
K_startTime     == <<"s", "t", "a", "r", "t", "T", "i", "m", "e">>
K_end_time      == <<"e", "n", "d", "_", "t", "i", "m", "e">>
K_start_page_key ==
    <<"s", "t", "a", "r", "t", "_", "p", "a", "g", "e", "_", "k", "e", "y">>
K_startPageKey ==
    <<"s", "t", "a", "r", "t", "P", "a", "g", "e", "K", "e", "y">>
K_proto         == <<"_", "_", "p", "r", "o", "t", "o", "_", "_">>
K_constructor   == <<"c", "o", "n", "s", "t", "r", "u", "c", "t", "o", "r">>
K_length        == <<"l", "e", "n", "g", "t", "h">>
K_polluted      == <<"p", "o", "l", "l", "u", "t", "e", "d">>

PageKeyText ==
    <<"p", "a", "g", "e", "_", "n", "u", "m", "b", "e", "r", "_", "2", "_",
      "i", "n", "d", "e", "x", "_", "0">>

\* The elements a data block is written from.  The first three are
\* well-formed citation objects: snake-style names, with a phrase that
\* quotes a comma before a bracket; camel-style names, the same source and
\* location; repeated line ids, timestamps and names outside the format,
\* reserved ones among them.
ElemSnake ==
    Written(<< <<K_id, Num(1)>>,
               <<K_attachment_id, Str(<<"d">>)>>,
               <<K_reasoning, Str(<<"r">>)>>,
               <<K_full_phrase, Str(<<"a", ",", "]">>)>>,
               <<K_key_span, Str(<<"a">>)>>,
               <<K_page_key, Str(PageKeyText)>>,
               <<K_line_ids, Arr(<<Num(3), Num(1)>>)>> >>)

ElemCamel ==
    Written(<< <<K_id, Num(2)>>,
               <<K_attachmentId, Str(<<"d">>)>>,
               <<K_fullPhrase, Str(<<"a", "]">>)>>,
               <<K_keySpan, Str(<<"a">>)>>,
               <<K_pageKey, Str(PageKeyText)>>,
               <<K_lineIds, Arr(<<Num(1), Num(3)>>)>> >>)

ElemExtraNames ==
    Written(<< <<K_id, Num(3)>>,
               <<K_full_phrase, Str(<<"t">>)>>,
               <<K_line_ids, Arr(<<Num(2), Num(2)>>)>>,
               <<K_timestamps,
                 Written(<< <<K_start_time, Str(<<"1">>)>>,
                            <<K_endTime, Str(<<"2">>)>>,
                            <<K_polluted, Bool(TRUE)>> >>)>>,
               <<K_proto, Written(<< <<K_polluted, Bool(TRUE)>> >>)>>,
               <<K_constructor, Str(<<"c">>)>> >>)

\* The malformed elements: no full phrase; null; a number; a page key that
\* is a number; line ids that are an object; line ids and timestamps that
\* are strings; a full phrase that is an empty array.
ElemNoPhrase ==
    Written(<< <<K_id, Num(5)>>, <<K_key_span, Str(<<"k">>)>> >>)

ElemNull == Null

ElemNumber == Num(5)

ElemPageKeyNumber ==
    Written(<< <<K_full_phrase, Str(<<"c">>)>>, <<K_page_key, Num(7)>> >>)

ElemLineIdsObject ==
    Written(<< <<K_full_phrase, Str(<<"c">>)>>,
               <<K_line_ids, Written(<< <<K_length, Num(1)>> >>)>> >>)

ElemStringFields ==
    Written(<< <<K_full_phrase, Str(<<"s">>)>>,
               <<K_line_ids, Str(<<"x">>)>>,
               <<K_timestamps, Str(<<"x">>)>> >>)

ElemPhraseEmptyArray ==
    Written(<< <<K_full_phrase, Arr(<<>>)>> >>)

WellFormedElements == {ElemSnake, ElemCamel, ElemExtraNames}

MalformedElements ==
    {ElemNoPhrase, ElemNull, ElemNumber, ElemPageKeyNumber, ElemLineIdsObject,
     ElemStringFields, ElemPhraseEmptyArray}

Elements == WellFormedElements \cup MalformedElements

----------------------------------------------------------------------------
(* Responses                                                               *)

\* Bounds of the generator: elements per data block, and characters a
\* cut-off generation may lack at the end of the block.
MaxElems == 2

MaxCut == 2

\* Most characters one streamed chunk delivers.
MaxChunk == 2

\* Visible texts: none; a sentence in whitespace that quotes the end
\* delimiter and carries a marker.
VisibleTexts ==
    { <<>>,
      <<" ", "s", "e", "e", " ">> \o CITATION_DATA_END_DELIMITER
          \o <<" ", "[", "1", "]", ".", " ", "\n">> }

Garbage == <<"o", "o", "p", "s">>

\* Text after the closing end delimiter: a remark and a second, empty block.
Afterword ==
    <<" ", "o", "k", " ">> \o CITATION_DATA_START_DELIMITER \o <<"[", "]">>
        \o CITATION_DATA_END_DELIMITER

\* the lists of at most MaxElems elements of which at most one is malformed
ElementLists ==
    {es \in UNION {[1..n -> Elements] : n \in 0..MaxElems} :
        Cardinality({i \in 1..Len(es) : es[i] \in MalformedElements}) <= 1}

\* how the block ends: closed by the end delimiter and followed by the
\* afterword, or left open, cut characters short of complete
Endings == {<<"closed", 0>>} \cup {<<"open", c>> : c \in 0..MaxCut}

\* kind: "array" (the elements as a JSON array), "bare" (one element on
\* its own), "garbage" (no JSON), "none" (no data block), "value" (the
\* response is not a string but elems[1])
ArrayPlans ==
    {[kind |-> "array", pre |-> p, elems |-> es, style |-> st,
      ending |-> e[1], cut |-> e[2]] :
        p \in VisibleTexts, es \in ElementLists,
        st \in {"plain", "trailingComma", "fenced"}, e \in Endings}

BarePlans ==
    {[kind |-> "bare", pre |-> p, elems |-> <<x>>, style |-> "plain",
      ending |-> e[1], cut |-> e[2]] :
        p \in VisibleTexts, x \in Elements, e \in Endings}

GarbagePlans ==
    {[kind |-> "garbage", pre |-> p, elems |-> <<>>, style |-> "plain",
      ending |-> e[1], cut |-> e[2]] :
        p \in VisibleTexts, e \in Endings}

NoBlockPlans ==
    {[kind |-> "none", pre |-> p, elems |-> <<>>, style |-> "plain",
      ending |-> "open", cut |-> 0] : p \in VisibleTexts}

ValuePlans ==
    {[kind |-> "value", pre |-> <<>>, elems |-> <<x>>, style |-> "plain",
      ending |-> "open", cut |-> 0] :
        x \in {Undefined, Null, Num(0), Num(5), Arr(<<>>), Obj(<<>>)}}

Plans == ArrayPlans \cup BarePlans \cup GarbagePlans \cup NoBlockPlans
             \cup ValuePlans

\* the JSON array of the elements, a comma before the closing bracket in
\* the trailingComma style
arrayText(es, style) ==
    <<"[">> \o renderItems(es)
        \o (IF style = "trailingComma" THEN <<",">> ELSE <<>>) \o <<"]">>

\* the data block as the generator means to write it
BlockText(p) ==
    CASE p.kind = "array" /\ p.style = "fenced" ->
             Fence \o <<"j", "s", "o", "n", "\n">>
                 \o arrayText(p.elems, p.style) \o <<"\n">> \o Fence
      [] p.kind = "array" /\ p.style # "fenced" -> arrayText(p.elems, p.style)
      [] p.kind = "bare"    -> Render(p.elems[1])
      [] p.kind = "garbage" -> Garbage
      [] OTHER              -> <<>>

\* the data block as written: cut characters short
WrittenBlock(p) == SubSeq(BlockText(p), 1, Len(BlockText(p)) - p.cut)

ClosingText(p) ==
    IF p.ending = "closed"
    THEN <<"\n">> \o CITATION_DATA_END_DELIMITER \o Afterword
    ELSE <<>>

\* the response of the generator
ResponseOf(p) ==
    CASE p.kind = "value" -> p.elems[1]
      [] p.kind = "none"  -> Str(p.pre)
      [] OTHER ->
             Str(p.pre \o CITATION_DATA_START_DELIMITER \o <<"\n">>
                     \o WrittenBlock(p) \o ClosingText(p))

\* the plans whose response is streamed: a string, of at most one element
StreamPlans ==
    {p \in Plans : p.kind # "value" /\ Len(p.elems) <= 1 /\ p.cut = 0}

----------------------------------------------------------------------------
(* Inline tags as the language model writes them: a tag is the list of    *)
(* its attributes, name and value, in the order written.                   *)

TagFirst ==
    << << <<"a", "t", "t", "a", "c", "h", "m", "e", "n", "t", "_", "i", "d">>,
         <<"f", "i", "l", "e", "1">> >>,
       << <<"f", "u", "l", "l", "_", "p", "h", "r", "a", "s", "e">>,
         <<"f", "i", "r", "s", "t">> >>,
       << <<"k", "e", "y", "_", "s", "p", "a", "n">>,
         <<"f", "i", "r", "s", "t">> >>,
       << <<"s", "t", "a", "r", "t", "_", "p", "a", "g", "e", "_", "k", "e",
         "y">>,
         <<"p", "a", "g", "e", "_", "n", "u", "m", "b", "e", "r", "_", "1",
           "_", "i", "n", "d", "e", "x", "_", "0">> >>,
       << <<"l", "i", "n", "e", "_", "i", "d", "s">>,
         <<"1">> >> >>

TagSecond ==
    << << <<"l", "i", "n", "e", "_", "i", "d", "s">>,
         <<"3", ",", " ", "1">> >>,
       << <<"k", "e", "y", "_", "s", "p", "a", "n">>,
         <<"2", "n", "d">> >>,
       << <<"f", "u", "l", "l", "_", "p", "h", "r", "a", "s", "e">>,
         <<"t", "h", "e", " ", "'", "s", "e", "c", "o", "n", "d", "'", " ",
           "&", " ", "<", "2", ">">> >>,
       << <<"a", "t", "t", "a", "c", "h", "m", "e", "n", "t", "_", "i", "d">>,
         <<"f", "i", "l", "e", "1">> >> >>

TagHundred ==
    << << <<"a", "t", "t", "a", "c", "h", "m", "e", "n", "t", "_", "i", "d">>,
         <<"t", "e", "s", "t">> >>,
       << <<"f", "u", "l", "l", "_", "p", "h", "r", "a", "s", "e">>,
         <<"h", "u", "n", "d", "r", "e", "d">> >>,
       << <<"l", "i", "n", "e", "_", "i", "d", "s">>,
         <<"1", "-", "1", "0", "0">> >> >>

TagOverCap ==
    << << <<"a", "t", "t", "a", "c", "h", "m", "e", "n", "t", "_", "i", "d">>,
         <<"t", "e", "s", "t">> >>,
       << <<"f", "u", "l", "l", "_", "p", "h", "r", "a", "s", "e">>,
         <<"h", "u", "g", "e">> >>,
       << <<"l", "i", "n", "e", "_", "i", "d", "s">>,
         <<"1", "-", "1", "0", "0", "1">> >> >>

Tags == {TagFirst, TagSecond, TagHundred, TagOverCap}

\* Most tags of one text.
MaxTags == 3

RECURSIVE escapeAttribute(_)
\* a value between single quotes: the quote is escaped, the characters of
\* markup are written as entities
escapeAttribute(v) ==
    IF v = <<>> THEN <<>>
    ELSE (CASE Head(v) = "'" -> <<"\\", "'">>
            [] Head(v) = "<" -> <<"&", "l", "t", ";">>
            [] Head(v) = ">" -> <<"&", "g", "t", ";">>
            [] Head(v) = "&" -> <<"&", "a", "m", "p", ";">>
            [] OTHER -> <<Head(v)>>) \o escapeAttribute(Tail(v))

RECURSIVE renderAttributes(_)
renderAttributes(attrs) ==
    IF attrs = <<>> THEN <<>>
    ELSE <<" ">> \o Head(attrs)[1] \o <<"=", "'">>
             \o escapeAttribute(Head(attrs)[2]) \o <<"'">>
             \o renderAttributes(Tail(attrs))

\* <cite a='v' ... /> or <cite a='v' ...>A</cite>
RenderTag(tag, paired) ==
    CiteOpen \o renderAttributes(tag)
        \o (IF paired THEN <<">", "A">> \o CiteClose ELSE <<" ", "/", ">">>)

\* Text between two tags: none, words, the opening of a tag that is never
\* completed.
Betweens ==
    { <<>>, <<" ", "a", "n", "d", " ">>,
      <<" ">> \o CiteOpen \o <<" ", "o", "o", "p", "s", " ">> }

\* the value of attribute name of a tag, as written
Attribute(tag, name) ==
    IF \E k \in 1..Len(tag) : Join(tag[k][1]) = name
    THEN Str(tag[CHOOSE k \in 1..Len(tag) : Join(tag[k][1]) = name][2])
    ELSE Undefined

\* kind "inline": the tags in the order written, all self-closing, all
\* paired or alternating, with the same text between any two
InlinePlans ==
    {[kind |-> "inline", tags |-> ts, shape |-> sh, between |-> b] :
        ts \in {t \in UNION {[1..n -> Tags] : n \in 1..MaxTags} :
                   \A i, j \in 1..Len(t) : i # j => t[i] # t[j]},
        sh \in {"selfClosing", "paired", "mixed"},
        b \in Betweens}

isPaired(p, k) == p.shape = "paired" \/ (p.shape = "mixed" /\ k % 2 = 0)

RECURSIVE inlineTextFrom(_, _)
inlineTextFrom(p, k) ==
    IF k > Len(p.tags) THEN <<".">>
    ELSE (IF k = 1 THEN <<>> ELSE p.between)
             \o RenderTag(p.tags[k], isPaired(p, k)) \o inlineTextFrom(p, k + 1)

InlineText(p) == <<"S", "e", "e", " ">> \o inlineTextFrom(p, 1)

\* a response with a data block whose visible text carries an inline tag
MixedPlans ==
    {[kind |-> "array", pre |-> RenderTag(t, sh = "paired") \o <<" ">>,
      elems |-> es, style |-> "plain", ending |-> e[1], cut |-> e[2]] :
        t \in {TagFirst, TagSecond}, sh \in {"selfClosing", "paired"},
        es \in {<<>>, <<ElemSnake>>, <<ElemCamel>>, <<ElemSnake, ElemExtraNames>>},
        e \in Endings}

OutputPlans == InlinePlans \cup MixedPlans

OutputOf(p) == IF p.kind = "inline" THEN Str(InlineText(p)) ELSE ResponseOf(p)

----------------------------------------------------------------------------
(* Callers                                                                 *)

\* no haptic has fired: the state of the haptics module after its load
NoHaptics ==
    /\ now = HAPTIC_MIN_GAP_MS
    /\ lastHapticAt = 0
    /\ vibrations = <<>>

\* no timer is pending in the browser
NoTimers ==
    /\ timers = {}
    /\ nextTimerId = 1

\* no component that uses useWheelZoom is mounted
NoZoom ==
    /\ zoomRef = 0
    /\ gestureZoomRef = <<>>
    /\ commitTimeoutId = <<>>
    /\ attached = FALSE
    /\ transform = <<>>
    /\ commits = <<>>
    /\ gestures = <<>>
    /\ lastWheelAt = 0

\* no component that uses useViewportBoundaryGuard is mounted
NoGuard ==
    /\ prevViewStateRef = <<>>
    /\ rafIdRef = 0
    /\ frames = {}
    /\ timerId = <<>>
    /\ observing = FALSE
    /\ translate = <<>>
    /\ lastRoAt = 0

\* the React layer is not in use
NoUi == NoTimers /\ NoZoom /\ NoGuard

\* A complete response is at hand; the caller makes one of the library's
\* calls on it.
Init ==
    /\ plan \in Plans
    /\ llmResponse = ResponseOf(plan)
    /\ fullResponse = llmResponse
    /\ displayText = <<>>
    /\ pc = "ready"
    /\ result = Undefined
    /\ history = <<>>
    /\ NoHaptics
    /\ NoUi

Parse ==
    /\ pc = "ready"
    /\ result' = parseDeferredCitationResponse(fullResponse)
    /\ pc' = "parsed"
    /\ UNCHANGED <<plan, llmResponse, fullResponse, displayText, history,
                   hapticVars, uiVars>>

GetAllCitations ==
    /\ pc = "ready"
    /\ result' = getAllCitationsFromDeferredResponse(fullResponse)
    /\ pc' = "extracted"
    /\ UNCHANGED <<plan, llmResponse, fullResponse, displayText, history,
                   hapticVars, uiVars>>

\* setDisplayText(extractVisibleText(fullResponse)); a throw leaves the
\* display as it was
ShowVisibleText ==
    /\ pc = "ready"
    /\ result' = extractVisibleText(fullResponse)
    /\ displayText' = IF result'.threw THEN displayText ELSE result'.value
    /\ pc' = "shown"
    /\ UNCHANGED <<plan, llmResponse, fullResponse, history, hapticVars,
                   uiVars>>

Next == Parse \/ GetAllCitations \/ ShowVisibleText

Spec == Init /\ [][Next]_vars

\* The streaming loop of INTEGRATION.md 3.3: every chunk is appended to
\* fullResponse and the visible text of the buffer is displayed; after
\* the last chunk the citations are extracted from the whole response.
InitStream ==
    /\ plan \in StreamPlans
    /\ llmResponse = ResponseOf(plan)
    /\ fullResponse = Str(<<>>)
    /\ displayText = <<>>
    /\ pc = "streaming"
    /\ result = Undefined
    /\ history = <<>>
    /\ NoHaptics
    /\ NoUi

StreamChunk ==
    /\ pc = "streaming"
    /\ Len(fullResponse.v) < Len(llmResponse.v)
    /\ \E n \in 1..MaxChunk :
         LET upto == IF Len(fullResponse.v) + n > Len(llmResponse.v)
                     THEN Len(llmResponse.v) ELSE Len(fullResponse.v) + n
             shown == extractVisibleText(Str(SubSeq(llmResponse.v, 1, upto)))
         IN  /\ fullResponse' = Str(SubSeq(llmResponse.v, 1, upto))
             /\ displayText' = IF shown.threw THEN displayText ELSE shown.value
             /\ pc' = IF shown.threw THEN "crashed" ELSE "streaming"
    /\ UNCHANGED <<plan, llmResponse, result, history, hapticVars, uiVars>>

\* The streamed responses hold no inline tag: getAllCitationsFromLlmOutput
\* on them is the extraction from the deferred block.
StreamComplete ==
    /\ pc = "streaming"
    /\ fullResponse = llmResponse
    /\ result' = getAllCitationsFromDeferredResponse(fullResponse)
    /\ LET shown == extractVisibleText(fullResponse)
       IN  /\ displayText' = IF shown.threw THEN displayText ELSE shown.value
           /\ pc' = IF result'.threw \/ shown.threw THEN "crashed" ELSE "done"
    /\ UNCHANGED <<plan, llmResponse, fullResponse, history, hapticVars,
                   uiVars>>

NextStream == StreamChunk \/ StreamComplete

SpecStream == InitStream /\ [][NextStream]_vars

\* One call of getAllCitationsFromLlmOutput on a complete generator
\* output that carries inline tags.
InitOutput ==
    /\ plan \in OutputPlans
    /\ llmResponse = OutputOf(plan)
    /\ fullResponse = llmResponse
    /\ displayText = <<>>
    /\ pc = "ready"
    /\ result = Undefined
    /\ history = <<>>
    /\ NoHaptics
    /\ NoUi

GetAllCitationsFromLlmOutput ==
    /\ pc = "ready"
    /\ result' = getAllCitationsFromLlmOutput(fullResponse)
    /\ pc' = "extracted"
    /\ UNCHANGED <<plan, llmResponse, fullResponse, displayText, history,
                   hapticVars, uiVars>>

NextOutput == GetAllCitationsFromLlmOutput

SpecOutput == InitOutput /\ [][NextOutput]_vars

\* The latest time on the clock, and the steps by which it advances
\* between two calls.
MaxTime == 1000

ClockSteps == {100, 199, 200}

\* The haptics module in a browser: plan tells whether navigator.vibrate
\* exists and whether the media query prefers-reduced-motion: reduce
\* matches; result tells whether the last call reached navigator.vibrate.
InitHaptics ==
    /\ plan \in [vibrate : BOOLEAN, reducedMotion : BOOLEAN]
    /\ llmResponse = Undefined
    /\ fullResponse = Undefined
    /\ displayText = <<>>
    /\ pc = "idle"
    /\ result = Bool(FALSE)
    /\ history = <<>>
    /\ NoHaptics
    /\ NoUi

\* time passes between two calls
ClockAdvances ==
    /\ \E d \in ClockSteps :
         /\ now + d <= MaxTime
         /\ now' = now + d
    /\ UNCHANGED <<plan, llmResponse, fullResponse, displayText, pc, result,
                   history, lastHapticAt, vibrations, uiVars>>

\* triggerHaptic(event)
TriggerHaptic ==
    /\ \E event \in DOMAIN HAPTIC_MS :
         IF tooSoon(now, lastHapticAt)
         THEN /\ result' = Bool(FALSE)
              /\ UNCHANGED <<lastHapticAt, vibrations>>
         ELSE /\ lastHapticAt' = now
              /\ vibrations' = IF plan.vibrate
                               THEN Append(vibrations,
                                           [at |-> now, ms |-> HAPTIC_MS[event]])
                               ELSE vibrations
              /\ result' = Bool(plan.vibrate)
    /\ UNCHANGED <<plan, llmResponse, fullResponse, displayText, pc, history,
                   now, uiVars>>

NextHaptics == ClockAdvances \/ TriggerHaptic

SpecHaptics == InitHaptics /\ [][NextHaptics]_vars

\* The first bytes of files: PDF, PNG, JPEG, both TIFF byte orders, WebP,
\* WAV and AVI (RIFF containers that are no WebP), zeros.
SampleFiles ==
    { <<37, 80, 68, 70, 45, 49, 46>>,
      <<137, 80, 78, 71, 13, 10, 26, 10>>,
      <<255, 216, 255, 224>>,
      <<73, 73, 42, 0>>,
      <<77, 77, 0, 42>>,
      <<82, 73, 70, 70, 0, 0, 0, 0, 87, 69, 66, 80>>,
      <<82, 73, 70, 70, 0, 0, 0, 0, 87, 65, 86, 69>>,
      <<82, 73, 70, 70, 0, 0, 0, 0, 65, 86, 73, 32>>,
      <<0, 0, 0, 0>> }

\* the buffers: every file, whole or cut short, the empty one included
Buffers == UNION {{SubSeq(f, 1, n) : n \in 0..Len(f)} : f \in SampleFiles}

MimeTypes ==
    ALLOWED_TYPES \cup {"application/octet-stream", "text/html", "constructor"}

FileSizes ==
    {0, 1024, MAX_UPLOAD_FILE_SIZE, MAX_UPLOAD_FILE_SIZE + 1}

Uploads ==
    [fileSize : FileSizes, mimeType : MimeTypes, buffer : Buffers]

\* An upload is at hand; it is validated by the library or posted to the
\* route of the example application.
InitUpload ==
    /\ plan \in Uploads
    /\ llmResponse = Undefined
    /\ fullResponse = Undefined
    /\ displayText = <<>>
    /\ pc = "ready"
    /\ result = Undefined
    /\ history = <<>>
    /\ NoHaptics
    /\ NoUi

ValidateUploadFile ==
    /\ pc = "ready"
    /\ result' = validateUploadFile(plan.fileSize, plan.mimeType, plan.buffer)
    /\ pc' = "validated"
    /\ UNCHANGED <<plan, llmResponse, fullResponse, displayText, history,
                   hapticVars, uiVars>>

ValidateFileMagicBytes ==
    /\ pc = "ready"
    /\ result' = validateFileMagicBytes(plan.buffer, plan.mimeType)
    /\ pc' = "checked"
    /\ UNCHANGED <<plan, llmResponse, fullResponse, displayText, history,
                   hapticVars, uiVars>>

PostUpload ==
    /\ pc = "ready"
    /\ \E configured \in BOOLEAN, present \in BOOLEAN, prepared \in BOOLEAN :
         result' = POST(configured, IF present THEN plan ELSE Undefined,
                        prepared)
    /\ pc' = "posted"
    /\ UNCHANGED <<plan, llmResponse, fullResponse, displayText, history,
                   hapticVars, uiVars>>

NextUpload == ValidateUploadFile \/ ValidateFileMagicBytes \/ PostUpload

SpecUpload == InitUpload /\ [][NextUpload]_vars

\* Most verifications one response of the backend holds.
MaxVerifications == 2

\* the raw statuses: those of the table, none, and strings outside it
RawStatuses ==
    {Str(t) : t \in VerifiedStatuses \cup PartialStatuses \cup PendingStatuses
                        \cup {"not_found", "skipped", "FOUND", "timeout"}}
        \cup {Null, Undefined}

\* a verification with the status, or no verification at all
Verifications ==
    {Obj("status" :> st) : st \in RawStatuses \ {Undefined}}
        \cup {Obj(<<>>), Null, Undefined}

\* The summary of the verify route: every verification is classified once
\* and counted.  plan holds the verifications, history the status of each
\* one classified so far, result the three counters.
InitStatus ==
    /\ plan \in UNION {[1..n -> Verifications] : n \in 0..MaxVerifications}
    /\ llmResponse = Undefined
    /\ fullResponse = Undefined
    /\ displayText = <<>>
    /\ pc = "ready"
    /\ result = [verified |-> 0, missed |-> 0, pending |-> 0]
    /\ history = <<>>
    /\ NoHaptics
    /\ NoUi

\* one turn of the loop over Object.entries(verifications)
ClassifyNext ==
    /\ pc = "ready"
    /\ Len(history) < Len(plan)
    /\ history' = Append(history,
                         [input  |-> plan[Len(history) + 1],
                          output |-> getCitationStatus(plan[Len(history) + 1])])
    /\ result' =
           [verified |-> result.verified
                + (IF history'[Len(history')].output.isVerified THEN 1 ELSE 0),
            missed   |-> result.missed
                + (IF history'[Len(history')].output.isMiss THEN 1 ELSE 0),
            pending  |-> result.pending
                + (IF history'[Len(history')].output.isPending THEN 1 ELSE 0)]
    /\ UNCHANGED <<plan, llmResponse, fullResponse, displayText, pc,
                   hapticVars, uiVars>>

NextStatus == ClassifyNext

SpecStatus == InitStatus /\ [][NextStatus]_vars

\* Most calls one caller makes.
MaxCalls == 3

\* the responses a caller passes, one after another: no block, an empty
\* block, blocks of one and of two citations, a block whose element makes
\* the call throw
CallPlans ==
    {p \in Plans :
        /\ p.pre = <<>> /\ p.style = "plain"
        /\ \/ p.kind = "none"
           \/ /\ p.kind = "array" /\ p.ending = "closed"
              /\ p.elems \in {<<>>, <<ElemSnake>>, <<ElemExtraNames>>,
                              <<ElemSnake, ElemExtraNames>>,
                              <<ElemPageKeyNumber>>}}

\* A caller that extracts the citations of several responses in turn.
InitCalls ==
    /\ plan \in CallPlans
    /\ llmResponse = ResponseOf(plan)
    /\ fullResponse = llmResponse
    /\ displayText = <<>>
    /\ pc = "ready"
    /\ result = Undefined
    /\ history = <<>>
    /\ NoHaptics
    /\ NoUi

CallGetAllCitations ==
    /\ pc = "ready"
    /\ result' = getAllCitationsFromDeferredResponse(fullResponse)
    /\ history' = Append(history, [input |-> fullResponse, output |-> result'])
    /\ pc' = "extracted"
    /\ UNCHANGED <<plan, llmResponse, fullResponse, displayText, hapticVars,
                   uiVars>>

NextResponse ==
    /\ pc = "extracted"
    /\ Len(history) < MaxCalls
    /\ \E p \in CallPlans :
         /\ plan' = p
         /\ llmResponse' = ResponseOf(p)
         /\ fullResponse' = ResponseOf(p)
    /\ pc' = "ready"
    /\ UNCHANGED <<displayText, result, history, hapticVars, uiVars>>

NextCalls == CallGetAllCitations \/ NextResponse

SpecCalls == InitCalls /\ [][NextCalls]_vars

----------------------------------------------------------------------------
(* Wheel zoom (src/react/hooks/useWheelZoom.ts).  A zoom level is held in   *)
(* thousandths (1000 is 1.0), a sensitivity in thousandths per pixel, so    *)
(* that the arithmetic of the handler is integer arithmetic.  A ref that    *)
(* holds null is the empty sequence, a ref that holds z is <<z>>.           *)

\* the delay of the commit, in milliseconds
COMMIT_DELAY_MS == 150

\* the zoom limits of the expanded page, and the step the committed zoom
\* is rounded to
ZOOM_MIN == 500

ZOOM_MAX == 3000

ZOOM_STEP == 10

\* clampZoomRaw of the consumer: the limits, no rounding
clampZoomRaw(z) ==
    IF z < ZOOM_MIN THEN ZOOM_MIN ELSE IF z > ZOOM_MAX THEN ZOOM_MAX ELSE z

\* clampZoom of the consumer: the limits, rounded to hundredths
clampZoom(z) == ((clampZoomRaw(z) + ZOOM_STEP \div 2) \div ZOOM_STEP) * ZOOM_STEP

\* e.deltaMode === 1 ? e.deltaY * 16 : e.deltaMode === 2 ? e.deltaY * 100 : e.deltaY
normalizedDeltaY(e) ==
    IF e.deltaMode = 1 THEN e.deltaY * 16
    ELSE IF e.deltaMode = 2 THEN e.deltaY * 100
    ELSE e.deltaY

\* -normalizedDeltaY * sensitivity
deltaOf(e, sensitivity) == (0 - normalizedDeltaY(e)) * sensitivity

\* gestureZoomRef.current after the event: the first event of a gesture
\* starts from the committed zoom
accumulated(gestureZoom, committed, delta) ==
    clampZoomRaw((IF gestureZoom = <<>> THEN committed ELSE gestureZoom[1])
                 + delta)

\* the commit leaves the timer of an earlier event pending
keepPending(pending, id) == pending

\* if (commitTimeoutId !== null) clearTimeout(commitTimeoutId)
cancelPending(pending, id) ==
    IF id = <<>> THEN pending ELSE {t \in pending : t.id # id[1]}

\* a call of onZoomCommit as the consumer sees it, with the time since
\* the latest accepted wheel event
CommitCall(value, by) ==
    [value |-> value, by |-> by, sinceWheel |-> now - lastWheelAt]

\* the cleanup drops the gesture in progress
cleanupDrops(id, gestureZoom) == <<>>

\* the calls of onZoomCommit made by the cleanup of the effect
cleanupCommits(id, gestureZoom) ==
    IF id # <<>> /\ gestureZoom # <<>>
    THEN <<CommitCall(clampZoom(gestureZoom[1]), "cleanup")>>
    ELSE <<>>

\* the props the effect depends on: the keyhole and the expanded page,
\* enabled or not
ZoomProps ==
    {[enabled |-> en, sensitivity |-> 8, requireCtrl |-> FALSE] :
         en \in BOOLEAN}
    \cup {[enabled |-> en, sensitivity |-> 5, requireCtrl |-> TRUE] :
              en \in BOOLEAN}

\* wheel events: a trackpad pixel delta with and without Ctrl, a line
\* delta and a page delta
WheelEvents ==
    {[ctrlKey |-> TRUE,  deltaMode |-> 0, deltaY |-> 0 - 101],
     [ctrlKey |-> TRUE,  deltaMode |-> 1, deltaY |-> 3],
     [ctrlKey |-> FALSE, deltaMode |-> 2, deltaY |-> 0 - 40]}

\* the wheel events accepted in one behaviour
MaxWheelEvents == 3

\* the renders with other props in one behaviour
MaxRenders == 1

\* the latest time on the clock, and the steps by which it advances
MaxWheelTime == 600

WheelClockSteps == {100, 150}

\* A component that uses the hook is mounted with a committed zoom of 1.0;
\* its effects have run.
InitZoom ==
    /\ plan \in ZoomProps
    /\ llmResponse = Undefined
    /\ fullResponse = Undefined
    /\ displayText = <<>>
    /\ pc = "mounted"
    /\ result = Str("mounted")
    /\ history = <<>>
    /\ NoHaptics
    /\ NoTimers
    /\ zoomRef = 1000
    /\ gestureZoomRef = <<>>
    /\ commitTimeoutId = <<>>
    /\ attached = plan.enabled
    /\ transform = <<>>
    /\ commits = <<>>
    /\ gestures = <<>>
    /\ lastWheelAt = 0
    /\ NoGuard

\* time passes
WheelClockAdvances ==
    /\ \E d \in WheelClockSteps :
         /\ now + d <= MaxWheelTime
         /\ now' = now + d
    /\ UNCHANGED <<plan, llmResponse, fullResponse, displayText, pc, result,
                   history, lastHapticAt, vibrations, uiVars>>

\* onWheel(e), the listener of the container; wrapper tells whether
\* wrapperRef.current is set
OnWheel ==
    /\ attached
    /\ \E e \in WheelEvents, wrapper \in BOOLEAN :
         IF plan.requireCtrl /\ ~e.ctrlKey
         THEN /\ result' = Str("scrolled")
              /\ UNCHANGED <<timerVars, zoomVars>>
         ELSE IF ~wrapper
         THEN /\ result' = Str("prevented")
              /\ UNCHANGED <<timerVars, zoomVars>>
         ELSE /\ nextTimerId <= MaxWheelEvents
              /\ gestureZoomRef' =
                     <<accumulated(gestureZoomRef, zoomRef,
                                   deltaOf(e, plan.sensitivity))>>
              /\ transform' = <<gestureZoomRef'[1], zoomRef>>
              /\ timers' = cancelPending(timers, commitTimeoutId)
                               \cup {[id |-> nextTimerId,
                                      due |-> now + COMMIT_DELAY_MS]}
              /\ commitTimeoutId' = <<nextTimerId>>
              /\ nextTimerId' = nextTimerId + 1
              /\ gestures' = IF gestureZoomRef = <<>>
                             THEN Append(gestures, gestureZoomRef'[1])
                             ELSE [gestures EXCEPT ![Len(gestures)] =
                                       gestureZoomRef'[1]]
              /\ lastWheelAt' = now
              /\ result' = Str("zooming")
              /\ UNCHANGED <<zoomRef, attached, commits>>
    /\ UNCHANGED <<plan, llmResponse, fullResponse, displayText, pc, history,
                   hapticVars, guardVars>>

\* the callback of setTimeout(..., 150) runs; the consumer sets its zoom
\* state, and its effects mirror the zoom and remove the transform
CommitTimeout ==
    /\ \E t \in timers :
         /\ t.due <= now
         /\ timers' = timers \ {t}
         /\ commitTimeoutId' = <<>>
         /\ IF gestureZoomRef = <<>>
            THEN /\ result' = Str("idle")
                 /\ UNCHANGED <<zoomRef, gestureZoomRef, transform, commits>>
            ELSE /\ gestureZoomRef' = <<>>
                 /\ commits' = Append(commits,
                                      CommitCall(clampZoom(gestureZoomRef[1]),
                                                 "timeout"))
                 /\ zoomRef' = clampZoom(gestureZoomRef[1])
                 /\ transform' = <<>>
                 /\ result' = Str("committed")
    /\ UNCHANGED <<plan, llmResponse, fullResponse, displayText, pc, history,
                   hapticVars, nextTimerId, attached, gestures, lastWheelAt,
                   guardVars>>

\* the cleanup of the wheel effect, followed by the effect of the next
\* render when the component stays mounted with the props next
EffectCleanup(next, stays, wrapper) ==
    /\ timers' = cancelPending(timers, commitTimeoutId)
    /\ commitTimeoutId' = <<>>
    /\ commits' = commits \o cleanupCommits(commitTimeoutId, gestureZoomRef)
    /\ gestureZoomRef' = IF commitTimeoutId # <<>> THEN <<>> ELSE gestureZoomRef
    /\ zoomRef' = IF commits' # commits
                  THEN commits'[Len(commits')].value ELSE zoomRef
    /\ transform' = IF commitTimeoutId # <<>> /\ wrapper THEN <<>> ELSE transform
    /\ attached' = (stays /\ next.enabled)
    /\ plan' = next
    /\ result' = Str(IF commits' # commits THEN "committed" ELSE "idle")
    /\ history' = IF stays THEN Append(history, next) ELSE history
    /\ UNCHANGED <<llmResponse, fullResponse, displayText,
                   hapticVars, nextTimerId, gestures, lastWheelAt, guardVars>>

\* a render with another enabled, sensitivity or requireCtrl: the effect is
\* cleaned up and runs again
PropsChange ==
    /\ pc = "mounted"
    /\ Len(history) < MaxRenders
    /\ \E next \in ZoomProps \ {plan}, wrapper \in BOOLEAN :
         IF attached
         THEN EffectCleanup(next, TRUE, wrapper)
         ELSE /\ attached' = next.enabled
              /\ plan' = next
              /\ result' = Str("idle")
              /\ history' = Append(history, next)
              /\ UNCHANGED <<llmResponse, fullResponse, displayText,
                             hapticVars, timerVars, zoomRef, gestureZoomRef,
                             commitTimeoutId, transform, commits, gestures,
                             lastWheelAt, guardVars>>
    /\ pc' = pc

\* the component unmounts
Unmount ==
    /\ pc = "mounted"
    /\ pc' = "unmounted"
    /\ \E wrapper \in BOOLEAN :
         IF attached
         THEN EffectCleanup(plan, FALSE, wrapper)
         ELSE /\ result' = Str("idle")
              /\ UNCHANGED <<plan, llmResponse, fullResponse, displayText,
                             history, hapticVars, uiVars>>

NextZoom ==
    WheelClockAdvances \/ OnWheel \/ CommitTimeout \/ PropsChange \/ Unmount

SpecZoom == InitZoom /\ [][NextZoom]_vars

----------------------------------------------------------------------------
(* Viewport guard (src/src/react/hooks/useViewportBoundaryGuard.ts).  The   *)
(* layout effect runs inside the commit of a render.  The observer effect   *)
(* is a passive effect: React runs its cleanup and its setup some time      *)
(* after the commit, at the latest before the next render, and callbacks    *)
(* of the browser may run in between.  The content element stays mounted    *)
(* while the popover is closed.                                             *)

SETTLE_MS == 300

VIEWPORT_MARGIN_PX == 16

\* window.innerWidth and window.innerHeight
innerWidth == 400

innerHeight == 300

\* el.getBoundingClientRect(): a popover within the margins, one over the
\* left and top edges, one over the right and bottom edges
Rects ==
    {[left |-> 100, right |-> 300, top |-> 50,  bottom |-> 250],
     [left |-> 0,   right |-> 200, top |-> 10,  bottom |-> 210],
     [left |-> 250, right |-> 450, top |-> 150, bottom |-> 350]}

\* clamp: horizontal clamping
dxOf(rect) ==
    IF rect.left < VIEWPORT_MARGIN_PX THEN VIEWPORT_MARGIN_PX - rect.left
    ELSE IF rect.right > innerWidth - VIEWPORT_MARGIN_PX
    THEN innerWidth - VIEWPORT_MARGIN_PX - rect.right
    ELSE 0

\* clamp: vertical clamping
dyOf(rect) ==
    IF rect.top < VIEWPORT_MARGIN_PX THEN VIEWPORT_MARGIN_PX - rect.top
    ELSE IF rect.bottom > innerHeight - VIEWPORT_MARGIN_PX
    THEN innerHeight - VIEWPORT_MARGIN_PX - rect.bottom
    ELSE 0

\* clamp(el): el.style.translate after the call, rect being the position
\* measured once the previous correction is removed
clamp(rect) ==
    IF dxOf(rect) # 0 \/ dyOf(rect) # 0
    THEN <<dxOf(rect), dyOf(rect)>>
    ELSE <<>>

\* the frame scheduled earlier stays pending
keepFrame(pending, id) == pending

\* cancelAnimationFrame(rafIdRef.current)
cancelFrame(pending, id) == pending \ {id}

\* the timer of the earlier callback stays pending
keepSettling(pending, id) == pending

\* clearTimeout(timerId)
clearSettling(pending, id) ==
    IF id = <<>> THEN pending ELSE {t \in pending : t.id # id[1]}

\* the refs, the element and the browser's callbacks as one value
GuardState ==
    [prev |-> prevViewStateRef, raf |-> rafIdRef, frames |-> frames,
     timerId |-> timerId, observing |-> observing, translate |-> translate,
     timers |-> timers]

\* the observer effect of the last commit, when it has not run yet: its
\* cleanup (lines 108-113) when the popover was open before, its setup
\* (lines 91-106) when it is open now
flushed(g, open) ==
    IF g.observing = open THEN g
    ELSE IF g.observing
    THEN [g EXCEPT !.frames = cancelFrame(g.frames, g.raf),
                   !.timers = clearSettling(g.timers, g.timerId),
                   !.timerId = <<>>,
                   !.observing = FALSE]
    ELSE [g EXCEPT !.timerId = <<>>, !.observing = TRUE]

\* the layout effect for the props next; id is the id the next
\* requestAnimationFrame returns
layoutEffect(g, next, rect, id) ==
    IF ~next.isOpen
    THEN [g EXCEPT !.frames = cancelFrame(g.frames, g.raf), !.raf = 0,
                   !.translate = <<>>, !.prev = <<>>]
    ELSE IF g.prev # <<>> /\ g.prev[1] # next.viewState
    THEN [g EXCEPT !.frames = cancelFrame(g.frames, g.raf) \cup {id},
                   !.raf = id,
                   !.translate = <<>>,
                   !.prev = <<next.viewState>>]
    ELSE [g EXCEPT !.frames = cancelFrame(g.frames, g.raf), !.raf = 0,
                   !.translate = clamp(rect),
                   !.prev = <<next.viewState>>]

\* what the layout effect did
layoutOutcome(g, next) ==
    IF ~next.isOpen THEN "cleared"
    ELSE IF g.prev # <<>> /\ g.prev[1] # next.viewState THEN "scheduled"
    ELSE "clamped"

SetGuard(g) ==
    /\ prevViewStateRef' = g.prev
    /\ rafIdRef' = g.raf
    /\ frames' = g.frames
    /\ timerId' = g.timerId
    /\ observing' = g.observing
    /\ translate' = g.translate
    /\ timers' = g.timers

\* the outcome of a step: what ran, whether the popover was open and
\* mounted then, the time since the latest ResizeObserver callback and
\* whether a debounced clamp was pending
Outcome(did, by) ==
    [did |-> did, by |-> by, isOpen |-> plan.isOpen,
     mounted |-> (pc = "mounted"), sinceRo |-> now - lastRoAt,
     settling |-> (timers # {})]

GuardProps == [isOpen : BOOLEAN, viewState : {"summary", "expanded-page"}]

\* the renders, the callbacks scheduled and the latest time in one behaviour
MaxGuardRenders == 3

MaxGuardCallbacks == 3

MaxGuardTime == 800

GuardClockSteps == {100, 300}

\* The component is mounted with the popover closed; its effects have run.
InitGuard ==
    /\ plan = [isOpen |-> FALSE, viewState |-> "summary"]
    /\ llmResponse = Undefined
    /\ fullResponse = Undefined
    /\ displayText = <<>>
    /\ pc = "mounted"
    /\ history = <<>>
    /\ NoHaptics
    /\ NoTimers
    /\ NoZoom
    /\ NoGuard
    /\ result = Outcome("mounted", "render")

GuardClockAdvances ==
    /\ \E d \in GuardClockSteps :
         /\ now + d <= MaxGuardTime
         /\ now' = now + d
    /\ UNCHANGED <<plan, llmResponse, fullResponse, displayText, pc, result,
                   history, lastHapticAt, vibrations, uiVars>>

\* a render with another isOpen or popoverViewState: React first runs the
\* passive effects of the last commit if they have not run, then commits,
\* and the layout effect runs in the commit
RenderGuard ==
    /\ pc = "mounted"
    /\ Len(history) < MaxGuardRenders
    /\ nextTimerId <= MaxGuardCallbacks
    /\ \E next \in GuardProps \ {plan}, rect \in Rects :
         /\ SetGuard(layoutEffect(flushed(GuardState, plan.isOpen), next,
                                  rect, nextTimerId))
         /\ nextTimerId' = IF layoutOutcome(GuardState, next) = "scheduled"
                           THEN nextTimerId + 1 ELSE nextTimerId
         /\ plan' = next
         /\ history' = Append(history, next.isOpen)
         /\ result' = [Outcome(layoutOutcome(GuardState, next), "layout")
                           EXCEPT !.isOpen = next.isOpen]
    /\ UNCHANGED <<llmResponse, fullResponse, displayText, pc, hapticVars,
                   zoomVars, lastRoAt>>

\* React runs the passive effects of the last commit
FlushPassive ==
    /\ observing # (pc = "mounted" /\ plan.isOpen)
    /\ SetGuard(flushed(GuardState, pc = "mounted" /\ plan.isOpen))
    /\ result' = Outcome("flushed", "effect")
    /\ UNCHANGED <<plan, llmResponse, fullResponse, displayText, pc, history,
                   hapticVars, nextTimerId, zoomVars, lastRoAt>>

\* the component unmounts: the passive effects of the last commit run if
\* they have not, the element is removed; the cleanup of the observer
\* effect is left to run
UnmountGuard ==
    /\ pc = "mounted"
    /\ pc' = "unmounted"
    /\ SetGuard(flushed(GuardState, plan.isOpen))
    /\ result' = Outcome("unmounted", "render")
    /\ UNCHANGED <<plan, llmResponse, fullResponse, displayText, history,
                   hapticVars, nextTimerId, zoomVars, lastRoAt>>

\* a callback of requestAnimationFrame runs: () => clamp(el)
AnimationFrame ==
    /\ \E f \in frames, rect \in Rects :
         /\ frames' = frames \ {f}
         /\ translate' = clamp(rect)
    /\ result' = Outcome("clamped", "frame")
    /\ UNCHANGED <<plan, llmResponse, fullResponse, displayText, pc, history,
                   hapticVars, timerVars, zoomVars, prevViewStateRef,
                   rafIdRef, timerId, observing, lastRoAt>>

\* the ResizeObserver calls debouncedClamp
ResizeObserved ==
    /\ observing
    /\ nextTimerId <= MaxGuardCallbacks
    /\ timers' = clearSettling(timers, timerId)
                     \cup {[id |-> nextTimerId, due |-> now + SETTLE_MS]}
    /\ timerId' = <<nextTimerId>>
    /\ nextTimerId' = nextTimerId + 1
    /\ lastRoAt' = now
    /\ result' = Outcome("debounced", "observer")
    /\ UNCHANGED <<plan, llmResponse, fullResponse, displayText, pc, history,
                   hapticVars, zoomVars, prevViewStateRef, rafIdRef, frames,
                   observing, translate>>

\* the callback of setTimeout(() => clamp(el), SETTLE_MS) runs
SettleTimeout ==
    /\ \E t \in timers, rect \in Rects :
         /\ t.due <= now
         /\ timers' = timers \ {t}
         /\ translate' = clamp(rect)
    /\ result' = Outcome("clamped", "observer")
    /\ UNCHANGED <<plan, llmResponse, fullResponse, displayText, pc, history,
                   hapticVars, nextTimerId, zoomVars, prevViewStateRef,
                   rafIdRef, frames, timerId, observing, lastRoAt>>

\* the window fires resize: onResize
WindowResize ==
    /\ observing
    /\ \E rect \in Rects : translate' = clamp(rect)
    /\ result' = Outcome("clamped", "resize")
    /\ UNCHANGED <<plan, llmResponse, fullResponse, displayText, pc, history,
                   hapticVars, timerVars, zoomVars, prevViewStateRef,
                   rafIdRef, frames, timerId, observing, lastRoAt>>

NextGuard ==
    \/ GuardClockAdvances \/ RenderGuard \/ FlushPassive \/ UnmountGuard
    \/ AnimationFrame \/ ResizeObserved \/ SettleTimeout \/ WindowResize

SpecGuard == InitGuard /\ [][NextGuard]_vars

----------------------------------------------------------------------------
(* Status indicator (src/src/react/CitationStatusIndicator.tsx).  What the  *)
(* component returns is held as the kind of element and the value of its    *)
(* data-dc-indicator attribute; null is the element "none".                 *)

Element(element, indicator) == [element |-> element, indicator |-> indicator]

\* the caret variant
caretIndicator(p) ==
    IF p.shouldShowSpinner THEN Element("caret", "pending")
    ELSE Element("caret", IF p.isMiss THEN "caret-error" ELSE "caret")

\* the dot variant
dotIndicator(p) ==
    IF p.shouldShowSpinner THEN Element("dot", "pending")
    ELSE IF p.isVerified /\ ~p.isPartialMatch THEN Element("dot", "verified")
    ELSE IF p.isPartialMatch THEN Element("dot", "partial")
    ELSE IF p.isMiss THEN Element("dot", "error")
    ELSE Element("none", "")

\* the icon variant with the verified test before the partial one and
\* without the exclusion of partial matches
iconVerifiedFirst(p) ==
    IF p.shouldShowSpinner THEN Element("icon", "pending")
    ELSE IF p.isVerified THEN Element("icon", "verified")
    ELSE IF p.isPartialMatch THEN Element("icon", "partial")
    ELSE IF p.isMiss THEN Element("icon", "error")
    ELSE Element("none", "")

\* the icon variant, the default
iconIndicator(p) ==
    IF p.shouldShowSpinner THEN Element("icon", "pending")
    ELSE IF p.isVerified /\ ~p.isPartialMatch THEN Element("icon", "verified")
    ELSE IF p.isPartialMatch THEN Element("icon", "partial")
    ELSE IF p.isMiss THEN Element("icon", "error")
    ELSE Element("none", "")

CitationStatusIndicator(p) ==
    IF p.renderIndicator THEN Element("custom", "")
    ELSE IF p.indicatorVariant = "none" THEN Element("none", "")
    ELSE IF p.indicatorVariant = "caret" THEN caretIndicator(p)
    ELSE IF p.indicatorVariant = "dot" THEN dotIndicator(p)
    ELSE iconIndicator(p)

\* the props: renderIndicator tells whether a custom renderer is given
IndicatorProps ==
    [renderIndicator : BOOLEAN,
     indicatorVariant : {"icon", "dot", "caret", "none"},
     shouldShowSpinner : BOOLEAN,
     isVerified : BOOLEAN, isPartialMatch : BOOLEAN, isMiss : BOOLEAN]

InitIndicator ==
    /\ plan \in IndicatorProps
    /\ llmResponse = Undefined
    /\ fullResponse = Undefined
    /\ displayText = <<>>
    /\ pc = "idle"
    /\ result = Element("none", "")
    /\ history = <<>>
    /\ NoHaptics
    /\ NoUi

\* the component renders
RenderIndicator ==
    /\ pc = "idle"
    /\ pc' = "rendered"
    /\ result' = CitationStatusIndicator(plan)
    /\ UNCHANGED <<plan, llmResponse, fullResponse, displayText, history,
                   hapticVars, uiVars>>

NextIndicator == RenderIndicator

SpecIndicator == InitIndicator /\ [][NextIndicator]_vars

----------------------------------------------------------------------------
(* Keyhole offset (src/src/react/computeKeyholeOffset.ts).  Widths and the  *)
(* highlight box are whole pixels; the halves the function computes make    *)
(* scrollLeft a multiple of half a pixel, so scrollLeft is held in half     *)
(* pixels (2 * scrollLeft), and the comparisons with 15 % and 85 % of the   *)
(* width are made on hundredths.                                            *)

\* the position is used as computed
unclamped(scrollLeft, maxScroll) == scrollLeft

\* Math.max(0, Math.min(scrollLeft, maxScroll))
clampScroll(scrollLeft, maxScroll) ==
    IF scrollLeft > maxScroll
    THEN (IF maxScroll < 0 THEN 0 ELSE maxScroll)
    ELSE (IF scrollLeft < 0 THEN 0 ELSE scrollLeft)

\* the returned object, scrollLeft2 being twice the scrollLeft
keyholeResult(scrollLeft2, imageNaturalWidth, containerWidth) ==
    [scrollLeft |-> scrollLeft2,
     fadeLeft   |-> scrollLeft2 > 2 * 2,
     fadeRight  |-> scrollLeft2 + 2 * containerWidth
                        < 2 * (imageNaturalWidth - 2)]

\* twice the scrollLeft before the clamp, for a highlight box
alignedScroll(imageNaturalWidth, containerWidth, box) ==
    IF 100 * box.x < 15 * imageNaturalWidth THEN 0
    ELSE IF 100 * (box.x + box.width) > 85 * imageNaturalWidth
    THEN 2 * (imageNaturalWidth - containerWidth)
    ELSE (2 * box.x + box.width) - containerWidth

computeKeyholeOffset(imageNaturalWidth, containerWidth, highlightBox) ==
    IF imageNaturalWidth <= containerWidth
    THEN [scrollLeft |-> 0, fadeLeft |-> FALSE, fadeRight |-> FALSE]
    ELSE IF highlightBox = Null
    THEN keyholeResult(
             IF imageNaturalWidth - containerWidth < 0 THEN 0
             ELSE imageNaturalWidth - containerWidth,
             imageNaturalWidth, containerWidth)
    ELSE keyholeResult(
             clampScroll(alignedScroll(imageNaturalWidth, containerWidth,
                                       highlightBox),
                         2 * (imageNaturalWidth - containerWidth)),
             imageNaturalWidth, containerWidth)

\* image and container widths, and highlight boxes inside, across and
\* outside the image
ImageWidths == {0, 300, 480, 481, 484, 600, 1000}

ContainerWidths == {0, 480, 483}

HighlightBoxes ==
    {Null} \cup [x : {0 - 50, 0, 50, 100, 400, 550, 870, 2000},
                 width : {0 - 10, 0, 40, 100, 1001}]

InitKeyhole ==
    /\ plan \in [imageNaturalWidth : ImageWidths,
                 containerWidth : ContainerWidths,
                 highlightBox : HighlightBoxes]
    /\ llmResponse = Undefined
    /\ fullResponse = Undefined
    /\ displayText = <<>>
    /\ pc = "idle"
    /\ result = [scrollLeft |-> 0, fadeLeft |-> FALSE, fadeRight |-> FALSE]
    /\ history = <<>>
    /\ NoHaptics
    /\ NoUi

\* the strip calls computeKeyholeOffset
ComputeKeyholeOffset ==
    /\ pc = "idle"
    /\ pc' = "computed"
    /\ result' = computeKeyholeOffset(plan.imageNaturalWidth,
                                      plan.containerWidth, plan.highlightBox)
    /\ UNCHANGED <<plan, llmResponse, fullResponse, displayText, history,
                   hapticVars, uiVars>>

NextKeyhole == ComputeKeyholeOffset

SpecKeyhole == InitKeyhole /\ [][NextKeyhole]_vars

----------------------------------------------------------------------------
(* Properties                                                              *)

\* the plans whose response holds the start delimiter
HasBlock(p) == p.kind \in {"array", "bare", "garbage"}

\* the visible text the generator wrote, as it is to be displayed
WrittenVisibleText(p) == trim(p.pre)

\* C1: every call of parseDeferredCitationResponse and of extractVisibleText
\* returns a visibleText, and on a response that is a string it is the
\* trimmed text before the first start marker (the whole trimmed text when
\* there is no marker), whether the data block parses strictly, parses
\* after repair, or fails both attempts.
C1_VisibleTextAlwaysReturned ==
    /\ pc = "parsed" =>
           /\ ~result.threw
           /\ plan.kind # "value" =>
                  result.value.visibleText = WrittenVisibleText(plan)
    /\ pc = "shown" =>
           /\ ~result.threw
           /\ plan.kind # "value" => result.value = WrittenVisibleText(plan)

\* C2: no call of parseDeferredCitationResponse or of
\* getAllCitationsFromDeferredResponse raises, whatever the input value.
C2_ExtractionNeverRaises ==
    pc \in {"parsed", "extracted"} => ~result.threw

\* the full phrase a written object carries, under either name
WrittenPhrase(e) ==
    Coalesce(Get(Meaning(e), "full_phrase"), Get(Meaning(e), "fullPhrase"))

\* a block written as a complete JSON array, closed or not
CompleteArray(p) == p.kind = "array" /\ p.style = "plain" /\ p.cut = 0

\* C3: when the array of a parsed data block holds one malformed element
\* next to well-formed ones, the call returns and every well-formed
\* element appears in the returned citation map.
C3_MalformedElementDoesNotAbort ==
    ( /\ pc = "extracted"
      /\ CompleteArray(plan)
      /\ \E i \in 1..Len(plan.elems) : plan.elems[i] \in MalformedElements
      /\ \E i \in 1..Len(plan.elems) : plan.elems[i] \in WellFormedElements )
    => /\ ~result.threw
       /\ \A i \in 1..Len(plan.elems) :
              plan.elems[i] \in WellFormedElements =>
                  \E k \in DOMAIN result.value :
                      result.value[k].fullPhrase = WrittenPhrase(plan.elems[i])

IsPrefix(a, b) == Len(a) <= Len(b) /\ SubSeq(b, 1, Len(a)) = a

\* C4: while a response is streamed, the text displayed after every chunk
\* (extractVisibleText of the prefix received so far) is part of the final
\* visible text: it never holds characters of the start marker or of the
\* data block.
C4_StreamedTextIsVisibleText == IsPrefix(displayText, WrittenVisibleText(plan))

\* the citations of the map a call of getAllCitationsFromDeferredResponse
\* returned
ReturnedCitations ==
    IF pc = "extracted" /\ ~result.threw
    THEN {result.value[k] : k \in DOMAIN result.value}
    ELSE {}

\* C5: every Citation of a returned map has a non-empty fullPhrase.
C5_FullPhraseNeverEmpty ==
    \A c \in ReturnedCitations :
        c.fullPhrase.t = "string" /\ c.fullPhrase.v # <<>>

StrictlyAscending(a) ==
    /\ \A i \in 1..Len(a) : a[i].t = "number"
    /\ \A i \in 1..(Len(a) - 1) : a[i].v < a[i + 1].v

\* C6: in every Citation of a returned map lineIds, when present, is a
\* strictly ascending sequence of integers without repetition.
C6_LineIdsStrictlyAscending ==
    \A c \in ReturnedCitations :
        c.lineIds # Undefined =>
            c.lineIds.t = "array" /\ StrictlyAscending(c.lineIds.v)

AllowedFields ==
    {"attachmentId", "pageNumber", "startPageKey", "fullPhrase", "keySpan",
     "citationNumber", "lineIds", "reasoning", "timestamps"}

\* C7: every Citation of a returned map carries the recognised fields only,
\* its timestamps carry startTime and endTime only, and no other name the
\* generator wrote in the object is copied into it.
C7_OnlyAllowListedFields ==
    \A c \in ReturnedCitations :
        /\ DOMAIN c \subseteq AllowedFields
        /\ c.timestamps # Undefined =>
               /\ c.timestamps.t = "object"
               /\ DOMAIN c.timestamps.v \subseteq {"startTime", "endTime"}

\* a citation was returned for the object written with reserved names and
\* names outside the format, in the object and in its timestamps
C7_Witness ==
    /\ \E i \in 1..Len(plan.elems) : plan.elems[i] = ElemExtraNames
    /\ {"__proto__", "constructor", "timestamps"}
           \subseteq DOMAIN Meaning(ElemExtraNames).v
    /\ "polluted" \in DOMAIN Meaning(ElemExtraNames).v["timestamps"].v
    /\ \E c \in ReturnedCitations :
           /\ c.fullPhrase = WrittenPhrase(ElemExtraNames)
           /\ c.timestamps # Undefined

\* the phrase of the written object holds no bracket, brace or comma
PlainPhrase(e) ==
    \A i \in 1..Len(WrittenPhrase(e).v) :
        WrittenPhrase(e).v[i] \notin {"[", "]", "{", "}", ","}

\* a JSON array of well-formed citation objects, no structural character
\* in their phrases, that lacks only its closing bracket (cut 1), or the
\* closing brace of its last object and the bracket (cut 2)
CutAfterCompleteValue(p) ==
    /\ p.kind = "array" /\ p.style = "plain" /\ p.ending = "open"
    /\ Len(p.elems) >= 1
    /\ \A i \in 1..Len(p.elems) :
           p.elems[i] \in WellFormedElements /\ PlainPhrase(p.elems[i])
    /\ p.cut \in {1, 2}

\* C8: a data block that fails the strict parse only because closing
\* brackets or braces are missing at its end is made parseable by the
\* repair pass, and its elements are returned as citations.
C8_MissingClosersRepaired ==
    (pc = "parsed" /\ CutAfterCompleteValue(plan)) =>
        /\ ~result.threw
        /\ result.value.success
        /\ Len(result.value.citations) = Len(plan.elems)

\* a complete JSON array of well-formed citation objects with pairwise
\* different full phrases, written with a comma before the closing bracket
TrailingCommaArray(p) ==
    /\ p.kind = "array" /\ p.style = "trailingComma" /\ p.cut = 0
    /\ Len(p.elems) >= 1
    /\ \A i \in 1..Len(p.elems) : p.elems[i] \in WellFormedElements
    /\ \A i, j \in 1..Len(p.elems) :
           i # j => WrittenPhrase(p.elems[i]) # WrittenPhrase(p.elems[j])

\* C9: a block holding a valid array of N objects with pairwise different
\* full phrases and a trailing comma before the closing bracket is repaired
\* to exactly N citations, and visibleText excludes the block.
C9_TrailingCommaRepaired ==
    /\ (pc = "parsed" /\ TrailingCommaArray(plan)) =>
           /\ ~result.threw
           /\ result.value.success
           /\ Len(result.value.citations) = Len(plan.elems)
           /\ result.value.visibleText = WrittenVisibleText(plan)
    /\ (pc = "extracted" /\ TrailingCommaArray(plan)) =>
           /\ ~result.threw
           /\ Cardinality(DOMAIN result.value) = Len(plan.elems)

\* the same plan with the other ending: closed by the end delimiter, or
\* left open at the end of the response
Twin(p) == [p EXCEPT !.ending = IF p.ending = "closed" THEN "open" ELSE "closed"]

\* C10: the data block is the text between the first start marker and the
\* first end marker after it, or the text up to the end of the response
\* when no end marker follows; a block closed by the end marker and the
\* same block left open yield the same citations and the same visibleText.
C10_BlockBetweenMarkers ==
    /\ (pc = "parsed" /\ HasBlock(plan)) =>
           /\ jsonStringOf(fullResponse.v, Len(plan.pre))
                  = trim(WrittenBlock(plan))
           /\ result = parseDataBlock(WrittenVisibleText(plan),
                                      trim(WrittenBlock(plan)))
    /\ (pc = "parsed" /\ HasBlock(plan) /\ plan.cut = 0) =>
           result = parseDeferredCitationResponse(ResponseOf(Twin(plan)))
    /\ (pc = "extracted" /\ HasBlock(plan) /\ plan.cut = 0) =>
           result = getAllCitationsFromDeferredResponse(ResponseOf(Twin(plan)))

\* a closed block of citations was parsed in a response whose visible text
\* quotes the end delimiter and whose afterword holds both delimiters again
C10_Witness ==
    /\ pc = "parsed"
    /\ plan.kind = "array" /\ plan.ending = "closed"
    /\ includes(plan.pre, CITATION_DATA_END_DELIMITER)
    /\ includes(ClosingText(plan), CITATION_DATA_START_DELIMITER)
    /\ ~result.threw
    /\ result.value.success
    /\ result.value.citations # <<>>
    /\ result.value.visibleText # <<>>

\* the same response without the text before its data block
WithoutVisibleText(p) == [p EXCEPT !.pre = <<>>]

SnakeCamel ==
    << <<K_attachment_id, K_attachmentId>>, <<K_full_phrase, K_fullPhrase>>,
       <<K_key_span, K_keySpan>>, <<K_page_key, K_pageKey>>,
       <<K_start_page_key, K_startPageKey>>, <<K_line_ids, K_lineIds>>,
       <<K_start_time, K_startTime>>, <<K_end_time, K_endTime>> >>

\* the same, the page key under its start_page_key name in the other style
SnakeCamelStart ==
    << <<K_attachment_id, K_attachmentId>>, <<K_full_phrase, K_fullPhrase>>,
       <<K_key_span, K_keySpan>>, <<K_page_key, K_startPageKey>>,
       <<K_start_page_key, K_pageKey>>, <<K_line_ids, K_lineIds>>,
       <<K_start_time, K_startTime>>, <<K_end_time, K_endTime>> >>

\* a field name in the other style
otherStyle(name, pairs) ==
    IF \E k \in 1..Len(pairs) : pairs[k][1] = name
    THEN pairs[CHOOSE k \in 1..Len(pairs) : pairs[k][1] = name][2]
    ELSE IF \E k \in 1..Len(pairs) : pairs[k][2] = name
    THEN pairs[CHOOSE k \in 1..Len(pairs) : pairs[k][2] = name][1]
    ELSE name

RECURSIVE restyled(_, _)
\* a written value with every field name in the other style
restyled(x, pairs) ==
    IF x.t = "written"
    THEN Written([k \in 1..Len(x.v) |->
                     <<otherStyle(x.v[k][1], pairs), restyled(x.v[k][2], pairs)>>])
    ELSE x

\* the response that differs from that of p in the style of the names only
Restyled(p, pairs) ==
    ResponseOf([p EXCEPT !.elems =
                   [k \in 1..Len(p.elems) |-> restyled(p.elems[k], pairs)]])

\* C13: field-name aliases.  Two data blocks that differ only in the style
\* of their field names, snake or camel, give the same outcome: the same
\* citation map from getAllCitationsFromDeferredResponse and the same result
\* from parseDeferredCitationResponse.
C13_AliasesGiveSameCitations ==
    /\ (pc = "extracted" /\ plan.kind \in {"array", "bare"}) =>
           \A pairs \in {SnakeCamel, SnakeCamelStart} :
               result = getAllCitationsFromDeferredResponse(Restyled(plan, pairs))
    /\ (pc = "parsed" /\ plan.kind \in {"array", "bare"}) =>
           \A pairs \in {SnakeCamel, SnakeCamelStart} :
               result = parseDeferredCitationResponse(Restyled(plan, pairs))

\* citations were extracted from a block that names a page key, line ids
\* and timestamps, and whose text in the other style is another text
C13_Witness ==
    /\ pc = "extracted"
    /\ plan.kind = "array"
    /\ plan.elems = <<ElemSnake, ElemExtraNames>>
    /\ Restyled(plan, SnakeCamel) # fullResponse
    /\ ~result.threw
    /\ Cardinality(DOMAIN result.value) = 2
    /\ \E k \in DOMAIN result.value :
           result.value[k].timestamps # Undefined
    /\ \E k \in DOMAIN result.value :
           result.value[k].pageNumber = Num(2)

\* the same text with its tags in the opposite order
Reversed(p) ==
    [p EXCEPT !.tags = [k \in 1..Len(p.tags) |-> p.tags[Len(p.tags) + 1 - k]]]

\* the citation c carries the attributes written in the tag
CarriesAttributes(c, tag) ==
    /\ c.attachmentId = Attribute(tag, "attachment_id")
    /\ c.fullPhrase = Attribute(tag, "full_phrase")
    /\ c.keySpan = Attribute(tag, "key_span")
    /\ (Attribute(tag, "start_page_key") # Undefined) =>
           c.startPageKey = Attribute(tag, "start_page_key")

\* C14: round trip of inline tags.  A text of N well-formed tags of
\* different citations, self-closing or paired, in any order, with or
\* without text between them, yields exactly N entries, one for each tag
\* and carrying its attributes, and the same map for the opposite order.
C14_InlineRoundTrip ==
    (pc = "extracted" /\ plan.kind = "inline") =>
        /\ ~result.threw
        /\ Cardinality(DOMAIN result.value) = Len(plan.tags)
        /\ \A i \in 1..Len(plan.tags) :
               \E k \in DOMAIN result.value :
                   CarriesAttributes(result.value[k], plan.tags[i])
        /\ result = getAllCitationsFromLlmOutput(OutputOf(Reversed(plan)))

\* three tags of both shapes, one with escaped characters in its phrase,
\* were extracted from a text that holds an unfinished tag between them
C14_Witness ==
    /\ pc = "extracted"
    /\ plan.kind = "inline"
    /\ Len(plan.tags) = 3
    /\ plan.shape = "mixed"
    /\ includes(plan.between, CiteOpen)
    /\ \E i \in 1..3 : plan.tags[i] = TagSecond
    /\ Reversed(plan) # plan
    /\ ~result.threw
    /\ Cardinality(DOMAIN result.value) = 3

\* The cap on the entries of one expanded range that section 4.2 of the
\* specification recommends.
MAX_RANGE_SIZE == 1000

\* the citations returned whose full phrase is that of the tag
CitationsOfTag(tag) ==
    {c \in ReturnedCitations : c.fullPhrase = Attribute(tag, "full_phrase")}

\* C15: a dash-range of line ids whose expansion exceeds the cap of 1,000
\* entries is rejected for its citation only: the citation is returned with
\* lineIds absent, no error is raised and the other citations of the text
\* are returned unchanged; a range within the cap, as 1-100, is expanded in
\* full.
C15_RangeOverCapRejected ==
    (pc = "extracted" /\ plan.kind = "inline") =>
        /\ ~result.threw
        /\ \A i \in 1..Len(plan.tags) :
               /\ CitationsOfTag(plan.tags[i]) # {}
               /\ \A c \in CitationsOfTag(plan.tags[i]) :
                      /\ c.lineIds # Undefined =>
                             Len(c.lineIds.v) <= MAX_RANGE_SIZE
                      /\ plan.tags[i] = TagOverCap => c.lineIds = Undefined
                      /\ plan.tags[i] = TagHundred =>
                             c.lineIds = Arr([n \in 1..100 |-> Num(n)])
                      /\ plan.tags[i] = TagFirst => c.lineIds = Arr(<<Num(1)>>)
                      /\ plan.tags[i] = TagSecond =>
                             c.lineIds = Arr(<<Num(1), Num(3)>>)

\* the raw status of a verification
RawStatusOf(verification) == Get(verification, "status")

\* C16: for every raw status, a token of the table, none, or a string
\* outside the table, the classifier never returns isPartialMatch true
\* together with isVerified false.
C16_PartialImpliesVerified ==
    \A i \in 1..Len(history) :
        history[i].output.isPartialMatch => history[i].output.isVerified

\* a status of the partial tier was classified
C16_Witness ==
    \E i \in 1..Len(history) :
        /\ RawStatusOf(history[i].input) = Str("found_on_other_page")
        /\ history[i].output.isPartialMatch
        /\ history[i].output.isVerified

\* the row of the table for a raw status
TableRow(status) ==
    CASE status \in {Str("found"), Str("found_phrase_missed_anchor_text")} ->
             <<TRUE, FALSE, FALSE, FALSE>>
      [] status \in {Str("found_anchor_text_only"), Str("found_on_other_page"),
                     Str("found_on_other_line"), Str("partial_text_found"),
                     Str("first_word_found")} ->
             <<TRUE, TRUE, FALSE, FALSE>>
      [] status = Str("not_found") -> <<FALSE, FALSE, TRUE, FALSE>>
      [] status \in {Str("pending"), Str("loading"), Null, Undefined} ->
             <<FALSE, FALSE, FALSE, TRUE>>
      [] status = Str("skipped") -> <<FALSE, FALSE, FALSE, FALSE>>
      [] OTHER -> <<>>

FlagsOf(status) ==
    <<status.isVerified, status.isPartialMatch, status.isMiss,
      status.isPending>>

HasBytesAt(buffer, offset, bytes) ==
    /\ Len(buffer) >= offset + Len(bytes)
    /\ SubSeq(buffer, offset + 1, offset + Len(bytes)) = bytes

\* bytes 0-3 are RIFF and bytes 8-11 are WEBP
IsWebP(buffer) ==
    /\ HasBytesAt(buffer, 0, <<82, 73, 70, 70>>)
    /\ HasBytesAt(buffer, 8, <<87, 69, 66, 80>>)

\* the content is of the declared type, one of the five allowed
ContentMatchesType(buffer, mime) ==
    CASE mime = "application/pdf" -> HasBytesAt(buffer, 0, <<37, 80, 68, 70>>)
      [] mime = "image/png"  -> HasBytesAt(buffer, 0, <<137, 80, 78, 71>>)
      [] mime = "image/jpeg" -> HasBytesAt(buffer, 0, <<255, 216, 255>>)
      [] mime = "image/tiff" -> \/ HasBytesAt(buffer, 0, <<73, 73, 42, 0>>)
                                \/ HasBytesAt(buffer, 0, <<77, 77, 0, 42>>)
      [] mime = "image/webp" -> IsWebP(buffer)
      [] OTHER -> FALSE

\* C18: validateUploadFile returns null, the file is accepted, only if the
\* size is at most 50 MB, the declared type is one of PDF, PNG, JPEG, TIFF
\* and WebP, and the bytes match a signature of the declared type; in every
\* other case it returns an error string.
C18_AcceptsOnlyMatchingContent ==
    pc = "validated" =>
        /\ ~result.threw
        /\ result.value = Null <=>
               /\ plan.fileSize <= 50 * 1024 * 1024
               /\ ContentMatchesType(plan.buffer, plan.mimeType)
        /\ result.value # Null => result.value.t = "string"

\* a WAV file of the largest size allowed, declared as WebP, was refused
\* for its content
C18_Witness ==
    /\ pc = "validated"
    /\ plan.mimeType = "image/webp"
    /\ plan.fileSize = MAX_UPLOAD_FILE_SIZE
    /\ HasBytesAt(plan.buffer, 0, <<82, 73, 70, 70>>)
    /\ Len(plan.buffer) = 12
    /\ ~IsWebP(plan.buffer)
    /\ result = Returned(Mismatch)

\* C19: a file declared as image/webp passes only when bytes 0-3 are RIFF
\* and bytes 8-11 are WEBP; a RIFF container of another kind declared as
\* WebP is refused by validateFileMagicBytes, by validateUploadFile and by
\* the magic-byte check of the upload route.
C19_OnlyWebPPassesAsWebP ==
    plan.mimeType = "image/webp" =>
        /\ pc = "checked" => (result = Returned(Bool(TRUE)) <=> IsWebP(plan.buffer))
        /\ (pc = "validated" /\ result = Returned(Null)) => IsWebP(plan.buffer)
        /\ (pc = "posted" /\ result.status = 200) => IsWebP(plan.buffer)

\* C20: never chain two haptics within 300 ms.  Over any sequence of calls
\* of triggerHaptic, with any events and at any times, no two vibrations
\* start less than 300 ms apart.
C20_NoTwoHapticsWithin300ms ==
    \A i, j \in 1..Len(vibrations) :
        i < j => vibrations[j].at - vibrations[i].at >= 300

\* two vibrations started exactly 300 ms apart, and a call 299 ms after the
\* second one was held back
C20_Witness ==
    /\ Len(vibrations) = 2
    /\ vibrations[2].at - vibrations[1].at = 300
    /\ vibrations[1].ms # vibrations[2].ms
    /\ now - lastHapticAt = 299
    /\ result = Bool(FALSE)

\* C21: triggerHaptic is a no-op when prefers-reduced-motion: reduce is
\* set.  While the user's reduced-motion preference is on, no call of
\* triggerHaptic starts a vibration.
C21_NoHapticUnderReducedMotion ==
    plan.reducedMotion => vibrations = <<>>

\* the data block of the plan is not valid JSON as written (a trailing
\* comma, a code fence, or closers cut off), so that its citations can only
\* be recovered through the repair pass
NeedsRepair(p) ==
    /\ p.kind = "array"
    /\ p.style # "plain" \/ p.cut > 0
    /\ \A i \in 1..Len(p.elems) : p.elems[i] \in WellFormedElements

WrittenString(e, snake, camel) ==
    Coalesce(Get(Meaning(e), snake), Get(Meaning(e), camel))

\* C22: the repair pass changes only the structure of the data block.  For
\* every citation recovered through repair, the full phrase, the key span
\* and the reasoning equal the string values the generator wrote in the
\* block, whatever commas, brackets and braces these values hold.
C22_RepairKeepsStringValues ==
    (/\ pc = "parsed" /\ NeedsRepair(plan)
     /\ ~result.threw /\ result.value.success
     /\ Len(result.value.citations) = Len(plan.elems)) =>
        \A i \in 1..Len(plan.elems) :
            /\ result.value.citations[i].full_phrase
                   = WrittenString(plan.elems[i], "full_phrase", "fullPhrase")
            /\ result.value.citations[i].key_span
                   = WrittenString(plan.elems[i], "key_span", "keySpan")
            /\ result.value.citations[i].reasoning
                   = Get(Meaning(plan.elems[i]), "reasoning")

\* C23: wheel zoom commits only after the debounce.  onZoomCommit is called
\* by the timer only when 150 ms have passed since the latest accepted
\* wheel event, otherwise only by the cleanup of the hook; while a gesture
\* is in progress the committed zoom is the one of the last commit and the
\* gesture shows only in the transform of the wrapper.
C23_CommitOnlyAfterDebounce ==
    /\ \A k \in 1..Len(commits) :
           commits[k].by = "timeout" =>
               commits[k].sinceWheel >= COMMIT_DELAY_MS
    /\ gestureZoomRef # <<>> =>
           /\ transform = <<gestureZoomRef[1], zoomRef>>
           /\ zoomRef = IF commits = <<>> THEN 1000
                        ELSE commits[Len(commits)].value

\* two wheel events 100 ms apart, then one commit by the timer, 150 ms
\* after the second event
C23_Witness ==
    /\ nextTimerId = 3
    /\ Len(gestures) = 1
    /\ Len(commits) = 1
    /\ commits[1].by = "timeout"
    /\ commits[1].sinceWheel = COMMIT_DELAY_MS
    /\ lastWheelAt = 400

\* C24: every wheel-zoom gesture is committed exactly once.  In any
\* interleaving of wheel events, timer expiries, renders with other props
\* and the unmount, at most one timer is pending; while none is pending
\* gestureZoomRef is null and there are as many commits as gestures; while
\* one is pending exactly the gesture in progress is uncommitted; and each
\* committed value is clampZoom of the last accumulated zoom of its gesture.
C24_EachGestureCommittedOnce ==
    /\ Cardinality(timers) <= 1
    /\ timers = {} <=> commitTimeoutId = <<>>
    /\ timers = {} =>
           gestureZoomRef = <<>> /\ Len(commits) = Len(gestures)
    /\ timers # {} =>
           gestureZoomRef # <<>> /\ Len(commits) = Len(gestures) - 1
    /\ \A k \in 1..Len(commits) : commits[k].value = clampZoom(gestures[k])

\* two gestures, the first committed by the cleanup of the effect and the
\* second by the timer, one of them with a value that the commit rounded
C24_Witness ==
    /\ Len(gestures) = 2
    /\ Len(commits) = 2
    /\ commits[1].by = "cleanup"
    /\ commits[2].by = "timeout"
    /\ \E k \in 1..2 : commits[k].value # gestures[k]
    /\ timers = {}

\* C25: the correction of the viewport guard does not persist across
\* open/close cycles.  While the popover is closed the translate of the
\* element is empty, and no clamp scheduled for an animation frame,
\* debounced from the ResizeObserver or called by a window resize runs
\* while it is closed.
C25_NoCorrectionWhileClosed ==
    /\ (pc = "mounted" /\ ~plan.isOpen) => translate = <<>>
    /\ (pc = "mounted" /\ result.did = "clamped"
            /\ result.by \in {"frame", "observer", "resize"}) =>
           result.isOpen

\* C26: on rapid view-state toggles the viewport guard keeps at most one
\* animation-frame clamp pending.  A pending clamp is the one scheduled by
\* the latest view-state change, a close leaves none pending, no
\* animation-frame clamp runs once the popover is closed or unmounted, and
\* a view-state change leaves the translate empty.
C26_OneFrameClampPending ==
    /\ Cardinality(frames) <= 1
    /\ frames \subseteq {rafIdRef}
    /\ (pc = "mounted" /\ frames # {}) => plan.isOpen
    /\ (result.by = "frame" /\ result.did = "clamped") =>
           result.mounted /\ result.isOpen
    /\ (result.by = "layout" /\ result.did = "scheduled") =>
           translate = <<>> /\ frames = {rafIdRef}

\* C27: a clamp triggered by the ResizeObserver runs only after 300 ms
\* without a further ResizeObserver callback, and at most one such clamp is
\* pending; a clamp triggered by a window resize runs at once, also while a
\* debounced clamp is pending.
C27_ObserverClampAfterSettle ==
    /\ (result.by = "observer" /\ result.did = "clamped") =>
           result.sinceRo >= SETTLE_MS
    /\ Cardinality(timers) <= 1
    /\ \A t \in timers : t.due = lastRoAt + SETTLE_MS
    /\ observing => ENABLED WindowResize

\* two ResizeObserver callbacks 100 ms apart, and the one clamp they lead
\* to ran 300 ms after the second
C27_Witness ==
    /\ result.by = "observer" /\ result.did = "clamped"
    /\ result.sinceRo = SETTLE_MS
    /\ nextTimerId = 3
    /\ rafIdRef = 0
    /\ lastRoAt = 500
    /\ timers = {}

\* the dot or icon indicator was rendered without a custom renderer
DotOrIconRendered ==
    /\ pc = "rendered"
    /\ ~plan.renderIndicator
    /\ plan.indicatorVariant \in {"dot", "icon"}

\* C28: with no custom renderer the dot and icon indicators show one tier,
\* the same for both variants: the spinner whenever shouldShowSpinner is
\* set; verified only for a verified citation that is no partial match;
\* partial for every partial match without spinner; miss only when neither
\* holds; nothing when no flag is set.  So a partial match never shows as
\* verified, and nothing but the spinner shows while it is wanted.
C28_OneTierByPriority ==
    DotOrIconRendered =>
        /\ result.element \in {plan.indicatorVariant, "none"}
        /\ plan.shouldShowSpinner <=> result.indicator = "pending"
        /\ result.indicator = "verified" =>
               plan.isVerified /\ ~plan.isPartialMatch
        /\ (plan.isPartialMatch /\ ~plan.shouldShowSpinner) =>
               result.indicator = "partial"
        /\ result.indicator = "partial" => plan.isPartialMatch
        /\ result.indicator = "error" =>
               plan.isMiss /\ ~plan.isVerified /\ ~plan.isPartialMatch
        /\ result.element = "none" <=>
               (/\ ~plan.shouldShowSpinner /\ ~plan.isVerified
                /\ ~plan.isPartialMatch /\ ~plan.isMiss)
        /\ result.indicator =
               CitationStatusIndicator(
                   [plan EXCEPT !.indicatorVariant =
                        IF @ = "dot" THEN "icon" ELSE "dot"]).indicator

\* a citation flagged verified, partial and missed at once was rendered as
\* an icon without spinner, and shows as partial
C28_Witness ==
    /\ DotOrIconRendered
    /\ plan.indicatorVariant = "icon"
    /\ plan.isVerified /\ plan.isPartialMatch /\ plan.isMiss
    /\ ~plan.shouldShowSpinner
    /\ result = Element("icon", "partial")

\* twice the largest scroll position: max(0, imageNaturalWidth - containerWidth)
MaxScroll2 ==
    IF plan.imageNaturalWidth > plan.containerWidth
    THEN 2 * (plan.imageNaturalWidth - plan.containerWidth)
    ELSE 0

\* C29: for all image widths, container widths and highlight boxes the
\* scrollLeft returned by computeKeyholeOffset lies between 0 and
\* max(0, imageNaturalWidth - containerWidth); when the image fits in the
\* container it is 0 and both fades are off, whatever the highlight box.
C29_ScrollLeftWithinRange ==
    pc = "computed" =>
        /\ 0 <= result.scrollLeft /\ result.scrollLeft <= MaxScroll2
        /\ plan.imageNaturalWidth <= plan.containerWidth =>
               /\ result.scrollLeft = 0
               /\ ~result.fadeLeft /\ ~result.fadeRight

\* a highlight in the middle of a 600 px image whose centred position, 210,
\* is beyond the largest scroll position of 120 and was clamped to it
C29_Witness ==
    /\ pc = "computed"
    /\ plan.imageNaturalWidth = 600 /\ plan.containerWidth = 480
    /\ plan.highlightBox = [x |-> 400, width |-> 100]
    /\ alignedScroll(600, 480, plan.highlightBox) = 2 * 210
    /\ result.scrollLeft = 2 * 120
    /\ result.fadeLeft /\ ~result.fadeRight
====
